---- MODULE Spec2Model ----
(***************************************************************************)
(* A model of krisalay/in-memory-cache: the sharded cache facade           *)
(* (sharded_cache.go), the cache engine and shard selector                 *)
(* (shard/selector.go), the copy-on-write shard store, the three eviction  *)
(* policies (eviction/lru.go, eviction/fifo.go), the expire-after-access   *)
(* strategy and the two write policies.                                    *)
(*                                                                         *)
(* Go values are modelled as follows.  A Go map is a TLA+ function whose   *)
(* DOMAIN is the set of keys present.  A pointer to an lruNode / lfuNode   *)
(* is a node id drawn from the pool 1..MaxNodes, NIL (0) being the nil     *)
(* pointer; a node that nothing can reach any more is returned to the pool *)
(* (its fields are blanked), which is what the garbage collector makes     *)
(* unobservable.  time.Time is an integer number of clock ticks, 0 being   *)
(* the zero time (IsZero); time.Duration is an integer number of ticks.    *)
(***************************************************************************)
EXTENDS Integers, Sequences, FiniteSets, TLC

\* ------------------------------------------------------------------ bounds
MaxNodes == 4      \* size of the node pool of one eviction policy
MaxFreq == 3       \* LFU: OnGet is not explored beyond this access count
MaxTime == 4       \* the clock runs from StartTime to MaxTime
MaxShards == 2     \* the configurations explored have 1..MaxShards shards
MaxCapacity == 2   \* ... and a total capacity of 0..MaxCapacity entries
MaxBuffer == 1     \* write-back channel buffer size of the configurations
NProcs == 2        \* number of concurrent callers
MaxOps == 7        \* number of calls explored in one run of a policy
MaxSeqOps == 2     \* number of calls explored in one run of a cache

\* ------------------------------------------------------------ value domains
Keys == {"a", "b", "c"}
Values == {"v1", "v2"}
NIL == 0           \* the nil pointer
NoKey == ""        \* Evict's "nothing to evict" result
NilVal == "nil"    \* a nil `any`
NoErr == "nil"     \* a nil error
LoadErr == "load failed"
PutErr == "put failed"   \* a non-nil error returned by the backing store's Put
StartTime == 2     \* first reading of the clock (time.Now() is never the zero time)
PutTTLs == {0, 1}          \* durations handed to PutWithTTL (Put hands 0)
ExpireTTLs == {-1, 1}      \* durations handed to Expire
NodeIds == 1..MaxNodes
Procs == 1..NProcs

Min(S) == CHOOSE x \in S : \A y \in S : x <= y
Range(f) == {f[x] : x \in DOMAIN f}
EmptyMap == [x \in {} |-> NIL]
\* delete(m, k) on a Go map
MapDelete(m, k) == [x \in (DOMAIN m) \ {k} |-> m[x]]
\* m[k] = v on a Go map
MapPut(m, k, v) == [x \in (DOMAIN m) \cup {k} |-> IF x = k THEN v ELSE m[x]]

\* ------------------------------------------------------- shard/selector.go
\* The bytes of each key ([]byte(s)).
KeyBytes(k) ==
    CASE k = "a" -> <<97>>
      [] k = "b" -> <<98>>
      [] k = "c" -> <<99>>

RECURSIVE Xor(_, _)
\* bitwise exclusive or of two naturals
Xor(x, y) ==
    IF x = 0 THEN y
    ELSE IF y = 0 THEN x
    ELSE ((x + y) % 2) + 2 * Xor(x \div 2, y \div 2)

\* A uint32 is kept as <<high 16 bits, low 16 bits>>.
FnvOffset == <<33052, 40389>>          \* 2166136261 = 0x811C9DC5
\* h*16777619 mod 2^32, with 16777619 = 2^24 + 403
FnvMulPrime(h) ==
    LET lo403 == h[2] * 403
        hi == (h[1] * 403 + (lo403 \div 65536) + (h[2] % 256) * 256) % 65536
    IN  <<hi, lo403 % 65536>>

RECURSIVE Fnv32a(_, _)
\* fnv.New32a over the bytes bs, starting from state h
Fnv32a(h, bs) ==
    IF bs = <<>> THEN h
    ELSE Fnv32a(FnvMulPrime(<<h[1], Xor(h[2], Head(bs))>>), Tail(bs))

hash(k) == Fnv32a(FnvOffset, KeyBytes(k))

\* idx := int(hash(key)) % len(shards), on a build whose int is 64 bits wide
Select(k, n) == LET h == hash(k) IN ((h[1] % n) * (65536 % n) + h[2]) % n

\* int(u) of a uint32 u on a build whose int is 32 bits wide: the same bits
\* read as a two's complement number
Int32(h) == IF h[1] >= 32768 THEN (h[1] - 65536) * 65536 + h[2] ELSE h[1] * 65536 + h[2]
\* Go's x % n, which truncates towards zero and has the sign of x
GoRem(x, n) == IF x >= 0 THEN x % n ELSE 0 - ((0 - x) % n)
\* idx := int(hash(key)) % len(shards) on a build whose int is w bits wide
SelectOn(w, k, n) == IF w = 32 THEN GoRem(Int32(hash(k)), n) ELSE Select(k, n)

\* ------------------------------------------------- the copy-on-write store
\* One shard store: the published snapshot and the separately kept size.
NewCOWStore == [data |-> EmptyMap, size |-> 0]
cowGet(s, k) == IF k \in DOMAIN s.data THEN s.data[k] ELSE NIL
cowHas(s, k) == k \in DOMAIN s.data
\* a variant: Put leaves the entry of a key already present alone
cowPutIfAbsent(s, k, ent) ==
    IF k \in DOMAIN s.data THEN s
    ELSE LET n == MapPut(s.data, k, ent) IN [data |-> n, size |-> Cardinality(DOMAIN n)]
cowPut(s, k, ent) ==
    LET n == MapPut(s.data, k, ent) IN [data |-> n, size |-> Cardinality(DOMAIN n)]
\* a variant: Delete counts the size down without looking whether the key was there
cowDeleteCountsDown(s, k) == [data |-> MapDelete(s.data, k), size |-> s.size - 1]
cowDelete(s, k) ==
    LET n == MapDelete(s.data, k) IN [data |-> n, size |-> Cardinality(DOMAIN n)]
cowSize(s) == s.size

\* -------------------------------------------------------- eviction/lru.go
BlankPtr == [n \in NodeIds |-> NIL]
newLRU == [nodes |-> EmptyMap,
           nkey |-> [n \in NodeIds |-> NoKey],
           prev |-> BlankPtr, next |-> BlankPtr,
           head |-> NIL, tail |-> NIL]

RECURSIVE lruReach(_, _)
\* the nodes reachable from the set R through prev / next
lruReach(l, R) ==
    LET S == R \cup {l.prev[n] : n \in R} \cup {l.next[n] : n \in R}
        T == S \ {NIL}
    IN  IF T = R THEN R ELSE lruReach(l, T)

\* What the garbage collector does: nodes that neither the policy nor a
\* caller (held) can reach go back to the pool.
lruCollect(l, held) ==
    LET live == lruReach(l, (Range(l.nodes) \cup {l.head, l.tail} \cup held) \ {NIL})
    IN  [l EXCEPT !.nkey = [n \in NodeIds |-> IF n \in live THEN l.nkey[n] ELSE NoKey],
                  !.prev = [n \in NodeIds |-> IF n \in live THEN l.prev[n] ELSE NIL],
                  !.next = [n \in NodeIds |-> IF n \in live THEN l.next[n] ELSE NIL]]

lruFree(l) == {n \in NodeIds : l.nkey[n] = NoKey}

addFront(l, n) ==
    LET l1 == [l EXCEPT !.next[n] = l.head]
        l2 == IF l1.head # NIL THEN [l1 EXCEPT !.prev[l1.head] = n] ELSE l1
        l3 == [l2 EXCEPT !.head = n]
    IN  IF l3.tail = NIL THEN [l3 EXCEPT !.tail = n] ELSE l3

remove(l, n) ==
    LET l1 == IF l.prev[n] # NIL
              THEN [l EXCEPT !.next[l.prev[n]] = l.next[n]]
              ELSE [l EXCEPT !.head = l.next[n]]
    IN  IF l1.next[n] # NIL
        THEN [l1 EXCEPT !.prev[l1.next[n]] = l1.prev[n]]
        ELSE [l1 EXCEPT !.tail = l1.prev[n]]

moveToFront(l, n) == addFront(remove(l, n), n)

lruOnGet(l, k) ==
    IF k \in DOMAIN l.nodes THEN moveToFront(l, l.nodes[k]) ELSE l

\* OnPut of a new key allocates a node; the pool must have one left.
lruCanPut(l, k) == k \in DOMAIN l.nodes \/ lruFree(l) # {}
lruOnPut(l, k) ==
    IF k \in DOMAIN l.nodes THEN l
    ELSE LET n == Min(lruFree(l))
             l1 == [l EXCEPT !.nkey[n] = k, !.prev[n] = NIL, !.next[n] = NIL,
                             !.nodes = MapPut(l.nodes, k, n)]
         IN  addFront(l1, n)

\* Evict returns the record [key, ev]: the key returned and the policy afterwards.
lruEvict(l) ==
    IF l.tail = NIL THEN [key |-> NoKey, ev |-> l]
    ELSE LET k == l.nkey[l.tail]
             l1 == remove(l, l.tail)
         IN  [key |-> k, ev |-> [l1 EXCEPT !.nodes = MapDelete(l1.nodes, k)]]

lruRemove(l, k) ==
    IF k \in DOMAIN l.nodes
    THEN LET l1 == remove(l, l.nodes[k])
         IN  [l1 EXCEPT !.nodes = MapDelete(l1.nodes, k)]
    ELSE l

\* -------------------------------------------------- eviction/lru.go (LFU)
\* freqMap is a map from a frequency to a bucket, itself a map key -> node.
newLFU == [nodes |-> EmptyMap,
           nkey |-> [n \in NodeIds |-> NoKey],
           freq |-> [n \in NodeIds |-> 0],
           freqMap |-> EmptyMap,
           minFreq |-> 0]

\* l.freqMap[f], the nil map when there is no such bucket
lfuBucket(l, f) == IF f \in DOMAIN l.freqMap THEN l.freqMap[f] ELSE EmptyMap

lfuCollect(l, held) ==
    LET live == Range(l.nodes) \cup held
                \cup UNION {Range(l.freqMap[f]) : f \in DOMAIN l.freqMap}
    IN  [l EXCEPT !.nkey = [n \in NodeIds |-> IF n \in live THEN l.nkey[n] ELSE NoKey],
                  !.freq = [n \in NodeIds |-> IF n \in live THEN l.freq[n] ELSE 0]]

lfuFree(l) == {n \in NodeIds : l.nkey[n] = NoKey}

\* delete(l.freqMap[f], k): deleting from a nil map does nothing
lfuBucketDelete(l, f, k) ==
    IF f \in DOMAIN l.freqMap
    THEN [l EXCEPT !.freqMap[f] = MapDelete(l.freqMap[f], k)]
    ELSE l

\* l.freqMap[f][k] = n, the bucket being made first when it is nil
lfuBucketPut(l, f, k, n) ==
    [l EXCEPT !.freqMap = MapPut(l.freqMap, f, MapPut(lfuBucket(l, f), k, n))]

\* a variant: minFreq advanced although the old bucket still holds keys
lfuTouchAlwaysBumpsMin(l, n, k) ==
    LET old == l.freq[n]
        l1 == [l EXCEPT !.freq[n] = old + 1]
        l2 == lfuBucketDelete(l1, old, k)
        l3 == [l2 EXCEPT !.minFreq = IF l2.minFreq = old THEN old + 1 ELSE l2.minFreq]
    IN  lfuBucketPut(l3, old + 1, k, n)

\* OnGet from "old := n.freq" on, for the node n found under key k
lfuTouch(l, n, k) ==
    LET old == l.freq[n]
        l1 == [l EXCEPT !.freq[n] = old + 1]
        l2 == lfuBucketDelete(l1, old, k)
        l3 == IF DOMAIN lfuBucket(l2, old) = {}
              THEN [l2 EXCEPT !.freqMap = MapDelete(l2.freqMap, old),
                              !.minFreq = IF l2.minFreq = old THEN old + 1 ELSE l2.minFreq]
              ELSE l2
    IN  lfuBucketPut(l3, old + 1, k, n)

lfuOnGet(l, k) ==
    IF k \in DOMAIN l.nodes THEN lfuTouch(l, l.nodes[k], k) ELSE l

\* the access counter is explored up to MaxFreq
lfuCanGet(l, k) == k \in DOMAIN l.nodes => l.freq[l.nodes[k]] < MaxFreq

lfuCanPut(l, k) == k \in DOMAIN l.nodes \/ lfuFree(l) # {}
lfuOnPut(l, k) ==
    IF k \in DOMAIN l.nodes THEN l
    ELSE LET n == Min(lfuFree(l))
             l1 == [l EXCEPT !.nkey[n] = k, !.freq[n] = 1,
                             !.nodes = MapPut(l.nodes, k, n)]
             l2 == lfuBucketPut(l1, 1, k, n)
         IN  [l2 EXCEPT !.minFreq = 1]

\* Evict ranges over the bucket of minFreq and takes the first key the map
\* iteration yields: any key of the bucket.  The set of possible outcomes.
lfuEvict(l) ==
    IF DOMAIN lfuBucket(l, l.minFreq) = {}
    THEN {[key |-> NoKey, ev |-> l]}
    ELSE {[key |-> k,
           ev |-> [l EXCEPT !.freqMap[l.minFreq] = MapDelete(l.freqMap[l.minFreq], k),
                            !.nodes = MapDelete(l.nodes, k)]]
          : k \in DOMAIN lfuBucket(l, l.minFreq)}

lfuRemove(l, k) ==
    IF k \in DOMAIN l.nodes
    THEN LET l1 == lfuBucketDelete(l, l.freq[l.nodes[k]], k)
         IN  [l1 EXCEPT !.nodes = MapDelete(l1.nodes, k)]
    ELSE l

\* ------------------------------------------------------- eviction/fifo.go
newFIFO == [queue |-> <<>>, set |-> {}]

fifoOnGet(f, k) == f

\* a variant: OnPut of a tracked key moves it to the back of the queue
fifoOnPutMovesBack(f, k) ==
    [queue |-> Append(SelectSeq(f.queue, LAMBDA x : x # k), k), set |-> f.set \cup {k}]

fifoOnPut(f, k) ==
    IF k \in f.set THEN f
    ELSE [queue |-> Append(f.queue, k), set |-> f.set \cup {k}]

fifoEvict(f) ==
    IF Len(f.queue) = 0 THEN [key |-> NoKey, ev |-> f]
    ELSE [key |-> f.queue[1],
          ev |-> [queue |-> Tail(f.queue), set |-> f.set \ {f.queue[1]}]]

\* the queue without its first element equal to k
fifoCut(q, k) ==
    LET i == Min({j \in 1..Len(q) : q[j] = k})
    IN  SubSeq(q, 1, i - 1) \o SubSeq(q, i + 1, Len(q))

fifoRemove(f, k) ==
    IF k \notin f.set THEN f
    ELSE [queue |-> IF \E j \in 1..Len(f.queue) : f.queue[j] = k
                    THEN fifoCut(f.queue, k) ELSE f.queue,
          set |-> f.set \ {k}]

\* ------------------------------------------- eviction.Policy, by PolicyType
PolicyTypes == {"LRU", "LFU", "FIFO"}

NewEvictionPolicy(t) ==
    CASE t = "LRU" -> newLRU
      [] t = "LFU" -> newLFU
      [] t = "FIFO" -> newFIFO

\* held: the nodes callers still point to (none in a sequential run)
Collect(t, e, held) ==
    CASE t = "LRU" -> lruCollect(e, held)
      [] t = "LFU" -> lfuCollect(e, held)
      [] t = "FIFO" -> e

OnGet(t, e, k) ==
    CASE t = "LRU" -> lruOnGet(e, k)
      [] t = "LFU" -> lfuOnGet(e, k)
      [] t = "FIFO" -> fifoOnGet(e, k)

OnPut(t, e, k) ==
    CASE t = "LRU" -> lruOnPut(e, k)
      [] t = "LFU" -> lfuOnPut(e, k)
      [] t = "FIFO" -> fifoOnPut(e, k)

\* the outcomes Evict can have: a set of [key, ev]
Evict(t, e) ==
    CASE t = "LRU" -> {lruEvict(e)}
      [] t = "LFU" -> lfuEvict(e)
      [] t = "FIFO" -> {fifoEvict(e)}

Remove(t, e, k) ==
    CASE t = "LRU" -> lruRemove(e, k)
      [] t = "LFU" -> lfuRemove(e, k)
      [] t = "FIFO" -> fifoRemove(e, k)

\* the bounds of the exploration: a free node for a new key, a count below MaxFreq
CanPut(t, e, k) ==
    CASE t = "LRU" -> lruCanPut(e, k)
      [] t = "LFU" -> lfuCanPut(e, k)
      [] t = "FIFO" -> TRUE

CanGet(t, e, k) == t = "LFU" => lfuCanGet(e, k)

\* The keys a policy tracks: its index (lru.nodes, lfu.nodes, fifo.set).
Tracked(t, e) == IF t = "FIFO" THEN e.set ELSE DOMAIN e.nodes

\* =================================================================== state
VARIABLES
    policy,      \* configuration: the eviction.PolicyType of every shard
    capacity,    \* configuration: ShardedCache.capacity
    shardCount,  \* configuration: len(ShardedCache.shards)
    intBits,     \* the build: the width of Go's int, 32 or 64 bits
    expiration,  \* configuration: "none" or "access" (ExpireAfterAccess)
    expTTL,      \* configuration: ExpireAfterAccess.TTL
    wpolicy,     \* configuration: "none", "through" (write-through) or "back" (write-back)
    buffer,      \* configuration: the write-back channel's buffer size
    store,       \* store[i]: the cowStore of shard i
    ev,          \* ev[i]: the eviction policy of shard i
    now,         \* the clock, what time.Now() returns
    backing,     \* the backing store's data, a map key -> value
    queue,       \* WriteBackPolicy.ch, the writes queued
    closed,      \* WriteBackPolicy.ch has been closed
    panicked,    \* the program died of an unrecovered panic
    ops,         \* the number of calls still to be explored in this run
    lastOp,      \* history: the call that completed last and what it returned
    insOrder,    \* history: the tracked/cached keys, oldest insertion first
    useOrder,    \* history: the tracked/cached keys, least recently used first
    pc,          \* pc[p]: the call goroutine p is in, where it is, its locals
    mu,          \* mu[i]: the goroutine holding shard i's EvictMu, or NIL
    sf,          \* ShardedCache.sf: key -> the goroutine whose load is in flight
    loads        \* history: the number of Loader.Load calls goroutines made, per key

cfgVars == <<policy, capacity, shardCount, intBits, expiration, expTTL, wpolicy, buffer>>
wbVars == <<backing, queue, closed, panicked>>
histVars == <<ops, lastOp, insOrder, useOrder>>
concVars == <<pc, mu, sf, loads>>
vars == <<policy, capacity, shardCount, intBits, expiration, expTTL, wpolicy, buffer, store, ev, now,
          backing, queue, closed, panicked, ops, lastOp, insOrder, useOrder,
          pc, mu, sf, loads>>

ShardIds == 0..(MaxShards - 1)

\* ---------------------------------------------------------------- history
\* s without its elements equal to k
RECURSIVE SeqWithout(_, _)
SeqWithout(s, k) ==
    IF s = <<>> THEN <<>>
    ELSE IF Head(s) = k THEN SeqWithout(Tail(s), k)
    ELSE <<Head(s)>> \o SeqWithout(Tail(s), k)

SeqSet(s) == {s[i] : i \in 1..Len(s)}

\* k was inserted while it was not there: it is the newest insertion and use
HistInsert(k) ==
    /\ insOrder' = IF k \in SeqSet(insOrder) THEN insOrder ELSE Append(insOrder, k)
    /\ useOrder' = IF k \in SeqSet(useOrder) THEN useOrder ELSE Append(useOrder, k)
\* k was read: it is the most recent use
HistRead(k) ==
    /\ insOrder' = insOrder
    /\ useOrder' = IF k \in SeqSet(useOrder)
                   THEN Append(SeqWithout(useOrder, k), k) ELSE useOrder
\* k left
HistDrop(k) ==
    /\ insOrder' = SeqWithout(insOrder, k)
    /\ useOrder' = SeqWithout(useOrder, k)

\* one more call is made
Call == ops > 0 /\ ops' = ops - 1

\* lastOp: the call, its key, the time it was made at, the value it was given
\* (val), the value it returned (ret: a cached or loaded value, or the key
\* Evict returned), its error, its boolean result (Expire), its duration
\* argument or result (PutWithTTL, Expire, TTL), the key its capacity check
\* evicted, whether it called the Loader, and the error the backing store's
\* Put returned to the write-through policy (werr).
Op(op, k) == [op |-> op, key |-> k, at |-> now, val |-> NilVal, ret |-> NilVal,
              err |-> NoErr, ok |-> FALSE, dur |-> 0, evicted |-> NoKey,
              loaded |-> FALSE, werr |-> NoErr]
NoOp == [Op("none", NoKey) EXCEPT !.at = StartTime]

\* a goroutine's record: the call (op) and where it is in it (at), the call's
\* key, value and ttl, the lruNode / lfuNode it looked up, whether the entry
\* it read is still the one cached, what it returns; and, history, whether
\* the key was absent when its Get started and whether no other goroutine
\* had returned by then.  In cowStore.Put and cowStore.Delete: the map it
\* loaded (old) and the map it is building (n).
IdleProc == [op |-> "none", at |-> "idle", key |-> NoKey, val |-> NilVal, ttl |-> 0,
             node |-> NIL, attached |-> FALSE, ret |-> NilVal, err |-> NoErr,
             missed |-> FALSE, conc |-> FALSE, old |-> EmptyMap, n |-> EmptyMap]
\* no goroutine is in a call
Quiet ==
    /\ pc = [p \in Procs |-> IdleProc]
    /\ mu = [i \in ShardIds |-> NIL]
    /\ sf = EmptyMap
    /\ loads = [k \in Keys |-> 0]

\* ============================================ the eviction policies alone
\* One policy instance (ev[0]) driven directly through eviction.Policy, by
\* every sequence of OnPut, OnGet, Remove and Evict.
PolicyInit ==
    /\ policy \in PolicyTypes
    /\ capacity = 0 /\ shardCount = 1
    /\ intBits = 64
    /\ expiration = "none" /\ expTTL = 0 /\ wpolicy = "none" /\ buffer = 0
    /\ store = [i \in ShardIds |-> NewCOWStore]
    /\ ev = [i \in ShardIds |-> NewEvictionPolicy(policy)]
    /\ now = StartTime
    /\ backing = EmptyMap /\ queue = <<>> /\ closed = FALSE /\ panicked = FALSE
    /\ ops = MaxOps /\ lastOp = NoOp /\ insOrder = <<>> /\ useOrder = <<>>
    /\ Quiet

PolicyOnPut(k) ==
    /\ Call
    /\ CanPut(policy, ev[0], k)
    /\ ev' = [ev EXCEPT ![0] = Collect(policy, OnPut(policy, ev[0], k), {})]
    /\ HistInsert(k)
    /\ lastOp' = Op("OnPut", k)
    /\ UNCHANGED <<cfgVars, store, now, wbVars, concVars>>

PolicyOnGet(k) ==
    /\ Call
    /\ CanGet(policy, ev[0], k)
    /\ ev' = [ev EXCEPT ![0] = Collect(policy, OnGet(policy, ev[0], k), {})]
    /\ HistRead(k)
    /\ lastOp' = Op("OnGet", k)
    /\ UNCHANGED <<cfgVars, store, now, wbVars, concVars>>

PolicyRemove(k) ==
    /\ Call
    /\ ev' = [ev EXCEPT ![0] = Collect(policy, Remove(policy, ev[0], k), {})]
    /\ HistDrop(k)
    /\ lastOp' = Op("Remove", k)
    /\ UNCHANGED <<cfgVars, store, now, wbVars, concVars>>

PolicyEvict ==
    \E r \in Evict(policy, ev[0]) :
        /\ Call
        /\ ev' = [ev EXCEPT ![0] = Collect(policy, r.ev, {})]
        /\ HistDrop(r.key)
        /\ lastOp' = [Op("Evict", NoKey) EXCEPT !.ret = r.key]
        /\ UNCHANGED <<cfgVars, store, now, wbVars, concVars>>

PolicyNext ==
    \/ \E k \in Keys : PolicyOnPut(k)
    \/ \E k \in Keys : PolicyOnGet(k)
    \/ \E k \in Keys : PolicyRemove(k)
    \/ PolicyEvict

PolicySpec == PolicyInit /\ [][PolicyNext]_vars

\* ====================================================== the cache engine
\* types.CacheEntry.  CreatedAt is written with LastAccessedAt when the entry
\* is made and never read or written again; it is left out.
NewEntry(v, t, ttl) ==
    [value |-> v, lastAccessedAt |-> t, expireAt |-> IF ttl > 0 THEN t + ttl ELSE 0]

\* ExpireAfterAccess.IsExpired
expIsExpired(ent, t) == ent.expireAt # 0 /\ t > ent.expireAt
\* a variant: OnAccess never moves an expiry back
expOnAccessKeepsLater(ent, t) ==
    [ent EXCEPT !.lastAccessedAt = t,
                !.expireAt = IF @ > t + expTTL THEN @ ELSE t + expTTL]
\* ExpireAfterAccess.OnAccess
expOnAccess(ent, t) == [ent EXCEPT !.lastAccessedAt = t, !.expireAt = t + expTTL]
\* a variant: OnWrite sets the expiry whether or not one was given
expOnWriteOverwrites(ent, t) ==
    [ent EXCEPT !.lastAccessedAt = t, !.expireAt = t + expTTL]
\* ExpireAfterAccess.OnWrite
expOnWrite(ent, t) ==
    [ent EXCEPT !.lastAccessedAt = t,
                !.expireAt = IF ent.expireAt = 0 THEN t + expTTL ELSE ent.expireAt]

\* CacheEngine.IsExpired
IsExpired(ent, t) == expiration # "none" /\ expIsExpired(ent, t)
\* CacheEngine.OnRead: the entry after the access hook (no refresh hook is configured)
OnRead(ent, t) == IF expiration # "none" THEN expOnAccess(ent, t) ELSE ent
\* CacheEngine.OnWrite, its expiration part: the entry after the write hook
OnWriteEntry(ent, t) == IF expiration # "none" THEN expOnWrite(ent, t) ELSE ent
\* a variant: OnWrite forwards without looking at the entry's expiry
ForwardsWhateverExpiry(ent) == wpolicy # "none"
\* CacheEngine.OnWrite, its forwarding part: is the entry handed to the write policy
Forwards(ent) == ent.expireAt = 0 /\ wpolicy # "none"

\* The write policy's state as one record.
WP == [backing |-> backing, queue |-> queue, closed |-> closed, panicked |-> panicked]
SetWP(w) ==
    /\ backing' = w.backing
    /\ queue' = w.queue
    /\ closed' = w.closed
    /\ panicked' = w.panicked

\* WriteThroughPolicy.OnWrite
wtOnWrite(w, k, v) == [w EXCEPT !.backing = MapPut(w.backing, k, v)]
\* WriteBackPolicy.OnWrite: a send on the closed channel panics; else the
\* write is queued when the buffer has room and dropped when it has not
wbOnWrite(w, k, v) ==
    IF w.closed THEN [w EXCEPT !.panicked = TRUE]
    ELSE IF Len(w.queue) < buffer
         THEN [w EXCEPT !.queue = Append(w.queue, <<k, v>>)]
         ELSE w
\* WritePolicy.OnWrite of the configured policy
wpOnWrite(w, k, v) ==
    IF wpolicy = "through" THEN wtOnWrite(w, k, v) ELSE wbOnWrite(w, k, v)

\* Loader.Load of the backing store: (value, error)
Load(k) == IF k \in DOMAIN backing THEN backing[k] ELSE NilVal

\* ===================================================== the cache facade
Shard(k) == SelectOn(intBits, k, shardCount)
\* idx can be computed (len(shards) is not zero) and shards[idx] is in range;
\* Go panics when not
ValidShard(k) == shardCount > 0 /\ Shard(k) \in 0..(shardCount - 1)
PerShard == capacity \div shardCount

\* a variant that makes room after storing the entry instead of before
PutLockedEvictsAfter(st, e, w, k, v, ttl, t) ==
    IF ~CanPut(policy, e, k) THEN {}
    ELSE LET ent == OnWriteEntry(NewEntry(v, t, ttl), t)
             w1 == IF Forwards(ent) THEN wpOnWrite(w, k, v) ELSE w
             st1 == cowPut(st, k, ent)
             e1 == OnPut(policy, e, k)
             evs == IF cowSize(st1) > PerShard
                    THEN Evict(policy, e1)
                    ELSE {[key |-> NoKey, ev |-> e1]}
         IN  IF w1.panicked
             THEN {[store |-> st, ev |-> e, wp |-> w1, evicted |-> NoKey]}
             ELSE {[store |-> IF r.key # NoKey THEN cowDelete(st1, r.key) ELSE st1,
                    ev |-> r.ev, wp |-> w1, evicted |-> r.key] : r \in evs}

\* PutWithTTL, the capacity check: the outcomes (Evict may have several) are
\* the store and the policy afterwards and the key evicted
PutMakeRoom(st, e) ==
    LET evs == IF cowSize(st) >= PerShard
               THEN Evict(policy, e)
               ELSE {[key |-> NoKey, ev |-> e]}
    IN  {[store |-> IF r.key # NoKey THEN cowDelete(st, r.key) ELSE st,
          ev |-> r.ev, evicted |-> r.key] : r \in evs}
\* PutWithTTL, the entry it creates and hands to CacheEngine.OnWrite
PutEntry(v, ttl, t) == OnWriteEntry(NewEntry(v, t, ttl), t)
\* PutWithTTL, the write policy after CacheEngine.OnWrite
PutForward(w, ent, k, v) == IF Forwards(ent) THEN wpOnWrite(w, k, v) ELSE w

\* PutWithTTL between Lock and Unlock, on the shard <<st, e>> of key k at time
\* t with write-policy state w.  The set of outcomes: the shard and the write
\* policy afterwards and the key evicted.
PutLocked(st, e, w, k, v, ttl, t) ==
    {LET ent == PutEntry(v, ttl, t)
         w1 == PutForward(w, ent, k, v)
     IN  IF w1.panicked
         THEN [store |-> r.store, ev |-> r.ev, wp |-> w1, evicted |-> r.evicted]
         ELSE [store |-> cowPut(r.store, k, ent), ev |-> OnPut(policy, r.ev, k),
               wp |-> w1, evicted |-> r.evicted]
     : r \in {x \in PutMakeRoom(st, e) : CanPut(policy, x.ev, k)}}

\* Remove between Lock and Unlock
RemoveStore(st, k) == cowDelete(st, k)
\* a variant: Remove deletes from the store without telling the policy
RemoveEvForgets(e, k) == e
RemoveEv(e, k) == Remove(policy, e, k)

\* an in-place write to the fields of the entry cached under k
EntrySet(st, k, ent) == [st EXCEPT !.data[k] = ent]

\* what Loader.Load can return for k: the backing store's value, or an error
LoadOutcomes(k) == {[val |-> Load(k), err |-> NoErr], [val |-> NilVal, err |-> LoadErr]}

\* the history after key `gone` left the cache (NoKey: none did) and k was put
OrdPut(s, gone, k) ==
    LET s1 == SeqWithout(s, gone) IN IF k \in SeqSet(s1) THEN s1 ELSE Append(s1, k)
\* the history after k was read
OrdRead(s, k) == IF k \in SeqSet(s) THEN Append(SeqWithout(s, k), k) ELSE s

\* ============================================ one caller, call after call
\* Every call runs to completion before the next one starts; the write-back
\* worker runs in the background.
ExpTTLs == {1}
Configs ==
    /\ policy \in PolicyTypes
    /\ shardCount \in 1..MaxShards
    /\ intBits = 64
    /\ capacity \in 0..MaxCapacity
    /\ expiration \in {"none", "access"}
    /\ expTTL \in (IF expiration = "access" THEN ExpTTLs ELSE {0})
    /\ wpolicy \in {"none", "through", "back"}
    /\ buffer \in (IF wpolicy = "back" THEN 1..MaxBuffer ELSE {0})

\* NewShardedCache, NewCacheEngine, NewWriteBackPolicy; the backing store is
\* empty or preloaded
Fresh ==
    /\ store = [i \in ShardIds |-> NewCOWStore]
    /\ ev = [i \in ShardIds |-> NewEvictionPolicy(policy)]
    /\ now = StartTime
    /\ backing \in {EmptyMap, [k \in Keys |-> "v1"]}
    /\ queue = <<>> /\ closed = FALSE /\ panicked = FALSE
    /\ lastOp = NoOp /\ insOrder = <<>> /\ useOrder = <<>>
    /\ Quiet

SeqInit == Configs /\ Fresh /\ ops = MaxSeqOps

\* ShardedCache.PutWithTTL (Put is PutWithTTL with ttl = 0)
SeqPut(k, v, ttl) ==
    /\ Call /\ ~panicked
    /\ \E r \in PutLocked(store[Shard(k)], ev[Shard(k)], WP, k, v, ttl, now) :
        /\ store' = [store EXCEPT ![Shard(k)] = r.store]
        /\ ev' = [ev EXCEPT ![Shard(k)] = Collect(policy, r.ev, {})]
        /\ SetWP(r.wp)
        /\ insOrder' = IF r.wp.panicked THEN SeqWithout(insOrder, r.evicted)
                       ELSE OrdPut(insOrder, r.evicted, k)
        /\ useOrder' = IF r.wp.panicked THEN SeqWithout(useOrder, r.evicted)
                       ELSE OrdPut(useOrder, r.evicted, k)
        /\ lastOp' = [Op(IF r.wp.panicked THEN "panic" ELSE "Put", k)
                        EXCEPT !.val = v, !.dur = ttl, !.evicted = r.evicted]
    /\ UNCHANGED <<cfgVars, now, concVars>>

\* a variant: PutWithTTL returns the backing store's error and stores nothing
SeqPutStoreFailsAborts(k, v, ttl) ==
    /\ Call /\ ~panicked
    /\ wpolicy = "through" /\ Forwards(PutEntry(v, ttl, now))
    /\ \E r \in PutMakeRoom(store[Shard(k)], ev[Shard(k)]) :
        /\ store' = [store EXCEPT ![Shard(k)] = r.store]
        /\ ev' = [ev EXCEPT ![Shard(k)] = Collect(policy, r.ev, {})]
        /\ insOrder' = SeqWithout(insOrder, r.evicted)
        /\ useOrder' = SeqWithout(useOrder, r.evicted)
        /\ lastOp' = [Op("Put", k) EXCEPT !.val = v, !.dur = ttl, !.err = PutErr,
                                          !.evicted = r.evicted, !.werr = PutErr]
    /\ UNCHANGED <<cfgVars, now, wbVars, concVars>>

\* ShardedCache.PutWithTTL under write-through when the backing store's Put
\* fails: it returns its error having written nothing, and
\* WriteThroughPolicy.OnWrite discards the error
SeqPutStoreFails(k, v, ttl) ==
    /\ Call /\ ~panicked
    /\ wpolicy = "through" /\ Forwards(PutEntry(v, ttl, now))
    /\ \E r \in PutLocked(store[Shard(k)], ev[Shard(k)], WP, k, v, ttl, now) :
        /\ store' = [store EXCEPT ![Shard(k)] = r.store]
        /\ ev' = [ev EXCEPT ![Shard(k)] = Collect(policy, r.ev, {})]
        /\ insOrder' = OrdPut(insOrder, r.evicted, k)
        /\ useOrder' = OrdPut(useOrder, r.evicted, k)
        /\ lastOp' = [Op("Put", k) EXCEPT !.val = v, !.dur = ttl,
                                          !.evicted = r.evicted, !.werr = PutErr]
    /\ UNCHANGED <<cfgVars, now, wbVars, concVars>>


\* ShardedCache.Get: does it find k cached and not expired
Hit(st, k, t) == cowHas(st, k) /\ ~IsExpired(st.data[k], t)

\* ShardedCache.Get, a cache hit
SeqGetHit(k) ==
    LET i == Shard(k)
        ent == store[i].data[k]
    IN  /\ Call /\ ~panicked
        /\ Hit(store[i], k, now)
        /\ CanGet(policy, ev[i], k)
        /\ store' = [store EXCEPT ![i] = EntrySet(store[i], k, OnRead(ent, now))]
        /\ ev' = [ev EXCEPT ![i] = Collect(policy, OnGet(policy, ev[i], k), {})]
        /\ insOrder' = insOrder
        /\ useOrder' = OrdRead(useOrder, k)
        /\ lastOp' = [Op("Get", k) EXCEPT !.ret = ent.value]
        /\ UNCHANGED <<cfgVars, now, wbVars, concVars>>

\* a variant: Get returns what the Loader returned without putting it into
\* the cache
SeqGetMissNoCache(k) ==
    LET i == Shard(k)
        st0 == RemoveStore(store[i], k)
        e0 == IF cowHas(store[i], k) THEN RemoveEv(ev[i], k) ELSE ev[i]
    IN  /\ Call /\ ~panicked
        /\ ~Hit(store[i], k, now)
        /\ \E l \in LoadOutcomes(k) :
            /\ store' = [store EXCEPT ![i] = st0]
            /\ ev' = [ev EXCEPT ![i] = Collect(policy, e0, {})]
            /\ insOrder' = SeqWithout(insOrder, k)
            /\ useOrder' = SeqWithout(useOrder, k)
            /\ lastOp' = [Op("Get", k) EXCEPT !.ret = l.val, !.err = l.err, !.loaded = TRUE]
            /\ UNCHANGED wbVars
        /\ UNCHANGED <<cfgVars, now, concVars>>

\* a variant: Get does not test the loaded value for nil
SeqGetMissCachesNil(k) ==
    LET i == Shard(k)
        st0 == RemoveStore(store[i], k)
        e0 == IF cowHas(store[i], k) THEN RemoveEv(ev[i], k) ELSE ev[i]
    IN  /\ Call /\ ~panicked
        /\ ~Hit(store[i], k, now)
        /\ \E l \in LoadOutcomes(k) :
            IF l.err # NoErr
            THEN /\ store' = [store EXCEPT ![i] = st0]
                 /\ ev' = [ev EXCEPT ![i] = Collect(policy, e0, {})]
                 /\ insOrder' = SeqWithout(insOrder, k)
                 /\ useOrder' = SeqWithout(useOrder, k)
                 /\ lastOp' = [Op("Get", k) EXCEPT !.err = l.err, !.loaded = TRUE]
                 /\ UNCHANGED wbVars
            ELSE \E r \in PutLocked(st0, e0, WP, k, l.val, 0, now) :
                 /\ store' = [store EXCEPT ![i] = r.store]
                 /\ ev' = [ev EXCEPT ![i] = Collect(policy, r.ev, {})]
                 /\ SetWP(r.wp)
                 /\ insOrder' = IF r.wp.panicked
                                THEN SeqWithout(SeqWithout(insOrder, k), r.evicted)
                                ELSE OrdPut(SeqWithout(insOrder, k), r.evicted, k)
                 /\ useOrder' = IF r.wp.panicked
                                THEN SeqWithout(SeqWithout(useOrder, k), r.evicted)
                                ELSE OrdPut(SeqWithout(useOrder, k), r.evicted, k)
                 /\ lastOp' = [Op(IF r.wp.panicked THEN "panic" ELSE "Get", k)
                                 EXCEPT !.ret = l.val, !.loaded = TRUE,
                                        !.evicted = r.evicted]
        /\ UNCHANGED <<cfgVars, now, concVars>>

\* ShardedCache.Get, the key absent or its entry expired: the expired entry is
\* removed, the Loader called and what it returned put into the cache
SeqGetMiss(k) ==
    LET i == Shard(k)
        st0 == RemoveStore(store[i], k)
        e0 == IF cowHas(store[i], k) THEN RemoveEv(ev[i], k) ELSE ev[i]
    IN  /\ Call /\ ~panicked
        /\ ~Hit(store[i], k, now)
        /\ \E l \in LoadOutcomes(k) :
            IF l.err # NoErr \/ l.val = NilVal
            THEN /\ store' = [store EXCEPT ![i] = st0]
                 /\ ev' = [ev EXCEPT ![i] = Collect(policy, e0, {})]
                 /\ insOrder' = SeqWithout(insOrder, k)
                 /\ useOrder' = SeqWithout(useOrder, k)
                 /\ lastOp' = [Op("Get", k) EXCEPT !.err = l.err, !.loaded = TRUE]
                 /\ UNCHANGED wbVars
            ELSE \E r \in PutLocked(st0, e0, WP, k, l.val, 0, now) :
                 /\ store' = [store EXCEPT ![i] = r.store]
                 /\ ev' = [ev EXCEPT ![i] = Collect(policy, r.ev, {})]
                 /\ SetWP(r.wp)
                 /\ insOrder' = IF r.wp.panicked
                                THEN SeqWithout(SeqWithout(insOrder, k), r.evicted)
                                ELSE OrdPut(SeqWithout(insOrder, k), r.evicted, k)
                 /\ useOrder' = IF r.wp.panicked
                                THEN SeqWithout(SeqWithout(useOrder, k), r.evicted)
                                ELSE OrdPut(SeqWithout(useOrder, k), r.evicted, k)
                 /\ lastOp' = [Op(IF r.wp.panicked THEN "panic" ELSE "Get", k)
                                 EXCEPT !.ret = l.val, !.loaded = TRUE,
                                        !.evicted = r.evicted]
        /\ UNCHANGED <<cfgVars, now, concVars>>

\* ShardedCache.Remove
SeqRemove(k) ==
    /\ Call /\ ~panicked
    /\ store' = [store EXCEPT ![Shard(k)] = RemoveStore(store[Shard(k)], k)]
    /\ ev' = [ev EXCEPT ![Shard(k)] = Collect(policy, RemoveEv(ev[Shard(k)], k), {})]
    /\ insOrder' = SeqWithout(insOrder, k)
    /\ useOrder' = SeqWithout(useOrder, k)
    /\ lastOp' = Op("Remove", k)
    /\ UNCHANGED <<cfgVars, now, wbVars, concVars>>

\* a variant: Expire treats an entry that has expired as absent
SeqExpireSkipsExpired(k, ttl) ==
    LET i == Shard(k) IN
    /\ Call /\ ~panicked
    /\ IF Hit(store[i], k, now)
       THEN /\ store' = [store EXCEPT ![i] =
                            EntrySet(store[i], k, [store[i].data[k] EXCEPT !.expireAt = now + ttl])]
            /\ lastOp' = [Op("Expire", k) EXCEPT !.ok = TRUE, !.dur = ttl]
       ELSE /\ store' = store
            /\ lastOp' = [Op("Expire", k) EXCEPT !.ok = FALSE, !.dur = ttl]
    /\ UNCHANGED <<cfgVars, ev, now, wbVars, insOrder, useOrder, concVars>>

\* ShardedCache.Expire
SeqExpire(k, ttl) ==
    LET i == Shard(k) IN
    /\ Call /\ ~panicked
    /\ IF cowHas(store[i], k)
       THEN /\ store' = [store EXCEPT ![i] =
                            EntrySet(store[i], k, [store[i].data[k] EXCEPT !.expireAt = now + ttl])]
            /\ lastOp' = [Op("Expire", k) EXCEPT !.ok = TRUE, !.dur = ttl]
       ELSE /\ store' = store
            /\ lastOp' = [Op("Expire", k) EXCEPT !.ok = FALSE, !.dur = ttl]
    /\ UNCHANGED <<cfgVars, ev, now, wbVars, insOrder, useOrder, concVars>>

\* ShardedCache.TTL: the duration returned
TTLOf(st, k, t) ==
    IF ~cowHas(st, k) \/ st.data[k].expireAt = 0 THEN -1
    ELSE IF st.data[k].expireAt - t < 0 THEN -2
    ELSE st.data[k].expireAt - t

SeqTTL(k) ==
    /\ Call /\ ~panicked
    /\ lastOp' = [Op("TTL", k) EXCEPT !.dur = TTLOf(store[Shard(k)], k, now)]
    /\ UNCHANGED <<cfgVars, store, ev, now, wbVars, insOrder, useOrder, concVars>>

\* a variant: Close does not wait for the worker, the queued writes are lost
DrainNothing(b, q) == b

\* the backing store after the worker has put every queued write, in order
RECURSIVE Drain(_, _)
Drain(b, q) == IF q = <<>> THEN b ELSE Drain(MapPut(b, Head(q)[1], Head(q)[2]), Tail(q))

\* ShardedCache.Close -> WriteBackPolicy.Close: close(w.ch), which panics on a
\* closed channel, then wg.Wait() until the worker has drained the channel
SeqClose ==
    /\ Call /\ ~panicked
    /\ IF wpolicy = "back"
       THEN IF closed
            THEN /\ panicked' = TRUE
                 /\ lastOp' = Op("panic", NoKey)
                 /\ UNCHANGED <<backing, queue, closed>>
            ELSE /\ closed' = TRUE
                 /\ backing' = Drain(backing, queue)
                 /\ queue' = <<>>
                 /\ lastOp' = Op("Close", NoKey)
                 /\ UNCHANGED panicked
       ELSE /\ lastOp' = Op("Close", NoKey)
            /\ UNCHANGED wbVars
    /\ UNCHANGED <<cfgVars, store, ev, now, insOrder, useOrder, concVars>>
\* a variant: the worker takes the write queued last
WorkerTakesLast ==
    /\ ~panicked /\ queue # <<>>
    /\ backing' = MapPut(backing, queue[Len(queue)][1], queue[Len(queue)][2])
    /\ queue' = SubSeq(queue, 1, Len(queue) - 1)
    /\ UNCHANGED <<cfgVars, store, ev, now, closed, panicked, histVars, concVars>>

\* WriteBackPolicy.worker, one turn of its loop
Worker ==
    /\ ~panicked /\ queue # <<>>
    /\ backing' = MapPut(backing, Head(queue)[1], Head(queue)[2])
    /\ queue' = Tail(queue)
    /\ UNCHANGED <<cfgVars, store, ev, now, closed, panicked, histVars, concVars>>

\* time passes
Tick ==
    /\ ~panicked /\ now < MaxTime
    /\ now' = now + 1
    /\ UNCHANGED <<cfgVars, store, ev, wbVars, histVars, concVars>>

SeqNext ==
    \/ \E k \in Keys, v \in Values, ttl \in PutTTLs : SeqPut(k, v, ttl)
    \/ \E k \in Keys : SeqGetHit(k)
    \/ \E k \in Keys : SeqGetMiss(k)
    \/ \E k \in Keys : SeqRemove(k)
    \/ \E k \in Keys, ttl \in ExpireTTLs : SeqExpire(k, ttl)
    \/ \E k \in Keys : SeqTTL(k)
    \/ SeqClose
    \/ Worker
    \/ Tick

SeqSpec == SeqInit /\ [][SeqNext]_vars

\* ================================= one LRU shard, call after call, at depth
\* One shard of capacity MaxCapacity under LRU, no expiration and no write
\* policy, driven by Put, Get and Remove.
LruInit ==
    /\ policy = "LRU" /\ shardCount = 1 /\ capacity = MaxCapacity
    /\ intBits = 64
    /\ expiration = "none" /\ expTTL = 0 /\ wpolicy = "none" /\ buffer = 0
    /\ Fresh
    /\ ops = MaxOps

LruNext ==
    \/ \E k \in Keys : SeqPut(k, "v1", 0)
    \/ \E k \in Keys : SeqGetHit(k)
    \/ \E k \in Keys : SeqGetMiss(k)
    \/ \E k \in Keys : SeqRemove(k)

LruSpec == LruInit /\ [][LruNext]_vars

\* ========================================== caches without a write policy,
\* call after call, at depth
\* Every policy, 1..MaxShards shards, capacity 1..MaxCapacity, with and
\* without ExpireAfterAccess, driven by Put, Get and Remove with the clock
\* standing still.
MaxDeepOps == 4
DeepInit ==
    /\ policy \in PolicyTypes
    /\ shardCount \in 1..MaxShards
    /\ intBits = 64
    /\ capacity \in 1..MaxCapacity
    /\ expiration \in {"none", "access"}
    /\ expTTL \in (IF expiration = "access" THEN ExpTTLs ELSE {0})
    /\ wpolicy = "none" /\ buffer = 0
    /\ Fresh
    /\ ops = MaxDeepOps

DeepNext ==
    \/ \E k \in Keys, v \in Values : SeqPut(k, v, 0)
    \/ \E k \in Keys : SeqGetHit(k)
    \/ \E k \in Keys : SeqGetMiss(k)
    \/ \E k \in Keys : SeqRemove(k)

DeepSpec == DeepInit /\ [][DeepNext]_vars

\* ================================== a cache with write-back, call after call
\* One FIFO shard without expiration strategy, a write-back policy with a
\* buffer of 1..MaxWbBuffer writes, driven by Put, PutWithTTL, Get and Close
\* while the worker runs in the background.
MaxWbBuffer == 2
MaxWbOps == 4
WbInit ==
    /\ policy = "FIFO" /\ shardCount = 1 /\ capacity = MaxCapacity
    /\ intBits = 64
    /\ expiration = "none" /\ expTTL = 0
    /\ wpolicy = "back" /\ buffer \in 1..MaxWbBuffer
    /\ Fresh
    /\ ops = MaxWbOps

WbNext ==
    \/ \E k \in Keys, v \in Values, ttl \in PutTTLs : SeqPut(k, v, ttl)
    \/ \E k \in Keys : SeqGetHit(k)
    \/ \E k \in Keys : SeqGetMiss(k)
    \/ SeqClose
    \/ Worker

WbSpec == WbInit /\ [][WbNext]_vars

\* ============================== a cache with write-through, call after call
\* One shard of capacity MaxCapacity under any eviction policy, with or
\* without expiration strategy, a write-through policy and a backing store
\* whose Put can fail.
MaxThroughOps == 3
ThroughInit ==
    /\ policy \in PolicyTypes /\ shardCount = 1 /\ capacity = MaxCapacity
    /\ intBits = 64
    /\ expiration \in {"none", "access"}
    /\ expTTL \in (IF expiration = "access" THEN ExpTTLs ELSE {0})
    /\ wpolicy = "through" /\ buffer = 0
    /\ Fresh
    /\ ops = MaxThroughOps

ThroughNext ==
    \/ \E k \in Keys, v \in Values, ttl \in PutTTLs : SeqPut(k, v, ttl)
    \/ \E k \in Keys, v \in Values, ttl \in PutTTLs : SeqPutStoreFails(k, v, ttl)
    \/ \E k \in Keys : SeqGetHit(k)
    \/ \E k \in Keys : SeqGetMiss(k)
    \/ \E k \in Keys : SeqRemove(k)

ThroughSpec == ThroughInit /\ [][ThroughNext]_vars

\* ================================================== goroutines, step by step
\* Each goroutine makes one call at a time.  A call is a sequence of steps;
\* what the code does without the shard lock is a step of its own, and so is
\* each part of a critical section that a lock-free reader can tell apart.
MaxConcOps == 4
ConcKeys == {"a", "b"}

\* the goroutine can start a call
Ready(p) == pc[p].at \in {"idle", "done"}
Start(p, op, k) ==
    [IdleProc EXCEPT !.op = op, !.key = k,
                     !.conc = \A q \in Procs \ {p} : pc[q].at # "done"]
\* goroutine p moves on: its record becomes r
Goto(p, r) == pc' = [pc EXCEPT ![p] = r]
\* the entry cached under k was replaced or deleted: goroutines that read it
\* before now hold an entry that is no longer the cached one
Detach(f, k) ==
    [q \in Procs |-> IF f[q].key = k THEN [f[q] EXCEPT !.attached = FALSE] ELSE f[q]]
\* the nodes of shard i that goroutines other than p hold between the lookup
\* and the update of OnGet
Held(i, p) ==
    {pc[q].node : q \in {x \in Procs \ {p} : pc[x].at = "touch" /\ Shard(pc[x].key) = i}}
\* a racing access to a Go map may end the program ("fatal error: concurrent
\* map read and map write", "concurrent map writes")
Crash ==
    /\ panicked' = TRUE
    /\ UNCHANGED <<cfgVars, store, ev, now, backing, queue, closed, histVars, concVars>>

\* Get, from Select to the check of IsExpired: a hit, an expired entry or a miss
GetStart(p, k) ==
    LET st == store[Shard(k)]
        r == Start(p, "Get", k)
    IN  /\ Ready(p) /\ Call /\ ~panicked
        /\ IF Hit(st, k, now)
           THEN Goto(p, [r EXCEPT !.at = "onread", !.attached = TRUE,
                                  !.ret = st.data[k].value])
           ELSE IF cowHas(st, k)
                THEN Goto(p, [r EXCEPT !.at = "rmLock", !.attached = TRUE])
                ELSE Goto(p, [r EXCEPT !.at = "sfDo", !.missed = TRUE])
        /\ UNCHANGED <<cfgVars, store, ev, now, wbVars, lastOp, insOrder, useOrder,
                       mu, sf, loads>>

\* Get, a hit: CacheEngine.OnRead writes to the entry it read, without the lock
GetOnRead(p) ==
    LET k == pc[p].key
        i == Shard(k)
    IN  /\ pc[p].at = "onread" /\ ~panicked
        /\ store' = IF pc[p].attached
                    THEN [store EXCEPT ![i] = EntrySet(store[i], k, OnRead(store[i].data[k], now))]
                    ELSE store
        /\ Goto(p, [pc[p] EXCEPT !.at = IF policy = "FIFO" THEN "done" ELSE "lookup"])
        /\ UNCHANGED <<cfgVars, ev, now, wbVars, histVars, mu, sf, loads>>

\* Get, a hit: Eviction.OnGet reads l.nodes[k], without the lock
GetLookup(p) ==
    LET k == pc[p].key
        e == ev[Shard(k)]
    IN  /\ pc[p].at = "lookup" /\ ~panicked
        /\ \/ /\ IF k \in DOMAIN e.nodes
                 THEN Goto(p, [pc[p] EXCEPT !.at = "touch", !.node = e.nodes[k]])
                 ELSE Goto(p, [pc[p] EXCEPT !.at = "done"])
              /\ UNCHANGED <<cfgVars, store, ev, now, wbVars, histVars, mu, sf, loads>>
           \/ /\ mu[Shard(k)] # NIL
              /\ Crash

\* OnGet after the lookup, on the node n found under k
Touch(e, n, k) == IF policy = "LRU" THEN moveToFront(e, n) ELSE lfuTouch(e, n, k)

\* Get, a hit: Eviction.OnGet updates the policy, without the lock
GetTouch(p) ==
    LET k == pc[p].key
        i == Shard(k)
    IN  /\ pc[p].at = "touch" /\ ~panicked
        /\ \/ /\ policy = "LFU" => ev[i].freq[pc[p].node] < MaxFreq
              /\ ev' = [ev EXCEPT ![i] =
                          Collect(policy, Touch(ev[i], pc[p].node, k), Held(i, p))]
              /\ Goto(p, [pc[p] EXCEPT !.at = "done", !.node = NIL])
              /\ UNCHANGED <<cfgVars, store, now, wbVars, histVars, mu, sf, loads>>
           \/ /\ policy = "LFU"
              /\ mu[i] # NIL \/ Held(i, p) # {}
              /\ Crash

\* Remove
RemoveStart(p, k) ==
    /\ Ready(p) /\ Call /\ ~panicked
    /\ Goto(p, [Start(p, "Remove", k) EXCEPT !.at = "rmLock"])
    /\ UNCHANGED <<cfgVars, store, ev, now, wbVars, lastOp, insOrder, useOrder,
                   mu, sf, loads>>

\* Remove (called, or by Get for an expired entry): Lock, Store.Delete
RemoveLock(p) ==
    LET k == pc[p].key
        i == Shard(k)
    IN  /\ pc[p].at = "rmLock" /\ ~panicked
        /\ mu[i] = NIL
        /\ mu' = [mu EXCEPT ![i] = p]
        /\ store' = [store EXCEPT ![i] = RemoveStore(store[i], k)]
        /\ pc' = [Detach(pc, k) EXCEPT ![p].at = "rmEv"]
        /\ UNCHANGED <<cfgVars, ev, now, wbVars, histVars, sf, loads>>

\* Remove: Eviction.Remove, Unlock; Get goes on to the miss path
RemoveUnlock(p) ==
    LET k == pc[p].key
        i == Shard(k)
    IN  /\ pc[p].at = "rmEv" /\ ~panicked
        /\ ev' = [ev EXCEPT ![i] = Collect(policy, RemoveEv(ev[i], k), Held(i, p))]
        /\ mu' = [mu EXCEPT ![i] = NIL]
        /\ Goto(p, [pc[p] EXCEPT !.at = IF pc[p].op = "Get" THEN "sfDo" ELSE "done"])
        /\ UNCHANGED <<cfgVars, store, now, wbVars, histVars, sf, loads>>

\* Get, a miss: singleflight.Group.Do joins the call in flight for the key,
\* or registers its own
SfDo(p) ==
    LET k == pc[p].key
    IN  /\ pc[p].at = "sfDo" /\ ~panicked
        /\ IF k \in DOMAIN sf
           THEN /\ Goto(p, [pc[p] EXCEPT !.at = "sfWait"])
                /\ sf' = sf
           ELSE /\ Goto(p, [pc[p] EXCEPT !.at = "load"])
                /\ sf' = MapPut(sf, k, p)
        /\ UNCHANGED <<cfgVars, store, ev, now, wbVars, histVars, mu, loads>>

\* a variant: only the goroutine that ran the loader gets its result; the
\* goroutines waiting on the call are released with nothing
SfLoadLeaderOnly(p) ==
    LET k == pc[p].key
    IN  /\ pc[p].at = "load" /\ ~panicked
        /\ loads' = [loads EXCEPT ![k] = @ + 1]
        /\ sf' = MapDelete(sf, k)
        /\ \E l \in LoadOutcomes(k) :
             pc' = [q \in Procs |->
                      IF q = p
                      THEN [pc[q] EXCEPT !.ret = l.val, !.err = l.err, !.val = l.val,
                                         !.at = IF l.err # NoErr \/ l.val = NilVal
                                                THEN "done" ELSE "putLock"]
                      ELSE IF pc[q].at = "sfWait" /\ pc[q].key = k
                      THEN [pc[q] EXCEPT !.at = "done"]
                      ELSE pc[q]]
        /\ UNCHANGED <<cfgVars, store, ev, now, wbVars, histVars, mu>>

\* Get, a miss: the registered call runs CacheEngine.Load and completes; the
\* goroutines waiting on it get its result; each returns on an error or a nil
\* value and goes on to Put otherwise
SfLoad(p) ==
    LET k == pc[p].key
    IN  /\ pc[p].at = "load" /\ ~panicked
        /\ loads' = [loads EXCEPT ![k] = @ + 1]
        /\ sf' = MapDelete(sf, k)
        /\ \E l \in LoadOutcomes(k) :
             pc' = [q \in Procs |->
                      IF q = p \/ (pc[q].at = "sfWait" /\ pc[q].key = k)
                      THEN [pc[q] EXCEPT !.ret = l.val, !.err = l.err, !.val = l.val,
                                         !.at = IF l.err # NoErr \/ l.val = NilVal
                                                THEN "done" ELSE "putLock"]
                      ELSE pc[q]]
        /\ UNCHANGED <<cfgVars, store, ev, now, wbVars, histVars, mu>>

\* PutWithTTL
PutStart(p, k, v, ttl) ==
    /\ Ready(p) /\ Call /\ ~panicked
    /\ Goto(p, [Start(p, "Put", k) EXCEPT !.at = "putLock", !.val = v, !.ttl = ttl])
    /\ UNCHANGED <<cfgVars, store, ev, now, wbVars, lastOp, insOrder, useOrder,
                   mu, sf, loads>>

\* a variant: the capacity check makes room in any shard that is full
PutLockEvictsAnywhere(p) ==
    LET k == pc[p].key
        i == Shard(k)
    IN  /\ pc[p].at = "putLock" /\ ~panicked
        /\ mu[i] = NIL
        /\ mu' = [mu EXCEPT ![i] = p]
        /\ \E j \in 0..(shardCount - 1) : \E r \in PutMakeRoom(store[j], ev[j]) :
            /\ store' = [store EXCEPT ![j] = r.store]
            /\ ev' = [ev EXCEPT ![j] = Collect(policy, r.ev, Held(j, p))]
            /\ pc' = [Detach(pc, r.evicted) EXCEPT ![p] = [pc[p] EXCEPT !.at = "putStore"]]
        /\ UNCHANGED <<cfgVars, now, wbVars, histVars, sf, loads>>

\* PutWithTTL (called, or by Get for a loaded value): Lock, the capacity check
PutLock(p) ==
    LET k == pc[p].key
        i == Shard(k)
    IN  /\ pc[p].at = "putLock" /\ ~panicked
        /\ mu[i] = NIL
        /\ mu' = [mu EXCEPT ![i] = p]
        /\ \E r \in PutMakeRoom(store[i], ev[i]) :
            /\ store' = [store EXCEPT ![i] = r.store]
            /\ ev' = [ev EXCEPT ![i] = Collect(policy, r.ev, Held(i, p))]
            /\ pc' = [Detach(pc, r.evicted) EXCEPT ![p] = [pc[p] EXCEPT !.at = "putStore"]]
        /\ UNCHANGED <<cfgVars, now, wbVars, histVars, sf, loads>>

\* PutWithTTL: the entry, CacheEngine.OnWrite, Store.Put; a panic in OnWrite
\* runs the deferred Unlock
PutStore(p) ==
    LET k == pc[p].key
        i == Shard(k)
        ent == PutEntry(pc[p].val, pc[p].ttl, now)
        w1 == PutForward(WP, ent, k, pc[p].val)
    IN  /\ pc[p].at = "putStore" /\ ~panicked
        /\ SetWP(w1)
        /\ IF w1.panicked
           THEN /\ mu' = [mu EXCEPT ![i] = NIL]
                /\ UNCHANGED <<store, pc>>
           ELSE /\ store' = [store EXCEPT ![i] = cowPut(store[i], k, ent)]
                /\ pc' = [Detach(pc, k) EXCEPT ![p] = [pc[p] EXCEPT !.at = "putEv"]]
                /\ mu' = mu
        /\ UNCHANGED <<cfgVars, ev, now, histVars, sf, loads>>

\* PutWithTTL: Eviction.OnPut, Unlock
PutUnlock(p) ==
    LET k == pc[p].key
        i == Shard(k)
    IN  /\ pc[p].at = "putEv" /\ ~panicked
        /\ CanPut(policy, ev[i], k)
        /\ ev' = [ev EXCEPT ![i] = Collect(policy, OnPut(policy, ev[i], k), Held(i, p))]
        /\ mu' = [mu EXCEPT ![i] = NIL]
        /\ Goto(p, [pc[p] EXCEPT !.at = "done"])
        /\ UNCHANGED <<cfgVars, store, now, wbVars, histVars, sf, loads>>

\* Expire: Lock, Store.Get, the write to ExpireAt, Unlock
ExpireLocked(p, k, ttl) ==
    LET i == Shard(k)
    IN  /\ Ready(p) /\ Call /\ ~panicked
        /\ mu[i] = NIL
        /\ store' = IF cowHas(store[i], k)
                    THEN [store EXCEPT ![i] =
                            EntrySet(store[i], k, [store[i].data[k] EXCEPT !.expireAt = now + ttl])]
                    ELSE store
        /\ Goto(p, [Start(p, "Expire", k) EXCEPT !.at = "done", !.ttl = ttl])
        /\ UNCHANGED <<cfgVars, ev, now, wbVars, lastOp, insOrder, useOrder, mu, sf, loads>>

\* One shard of capacity 1 with an expiration strategy and a backing store
\* that holds every key; MaxConcOps calls by NProcs goroutines.
ConcInit ==
    /\ policy \in PolicyTypes
    /\ shardCount = 1 /\ capacity = 1
    /\ intBits = 64
    /\ expiration = "access" /\ expTTL = 1 /\ wpolicy = "none" /\ buffer = 0
    /\ store = [i \in ShardIds |-> NewCOWStore]
    /\ ev = [i \in ShardIds |-> NewEvictionPolicy(policy)]
    /\ now = StartTime
    /\ backing = [k \in Keys |-> "v1"]
    /\ queue = <<>> /\ closed = FALSE /\ panicked = FALSE
    /\ lastOp = NoOp /\ insOrder = <<>> /\ useOrder = <<>>
    /\ Quiet
    /\ ops = MaxConcOps

ConcNext ==
    \E p \in Procs :
        \/ \E k \in ConcKeys : GetStart(p, k)
        \/ GetOnRead(p)
        \/ GetLookup(p)
        \/ GetTouch(p)
        \/ \E k \in ConcKeys : RemoveStart(p, k)
        \/ RemoveLock(p)
        \/ RemoveUnlock(p)
        \/ SfDo(p)
        \/ SfLoad(p)
        \/ \E k \in ConcKeys, ttl \in PutTTLs : PutStart(p, k, "v2", ttl)
        \/ PutLock(p)
        \/ PutStore(p)
        \/ PutUnlock(p)
        \/ \E k \in ConcKeys : ExpireLocked(p, k, -1)

ConcSpec == ConcInit /\ [][ConcNext]_vars

\* ============================== goroutines that each Get the same absent key
\* Every goroutine calls Get("a") once on an empty cache; nothing else is called.
LoadInit ==
    /\ Configs
    /\ Fresh
    /\ ops = NProcs

LoadNext ==
    \E p \in Procs :
        \/ pc[p].at = "idle" /\ GetStart(p, "a")
        \/ GetOnRead(p)
        \/ GetLookup(p)
        \/ GetTouch(p)
        \/ SfDo(p)
        \/ SfLoad(p)
        \/ PutLock(p)
        \/ PutStore(p)
        \/ PutUnlock(p)

LoadSpec == LoadInit /\ [][LoadNext]_vars

\* ===================== goroutines that Put and Get, under each write policy
\* One FIFO shard of capacity 1 without expiration strategy, with no write
\* policy, write-through or write-back; MaxLockOps calls of Put and Get by
\* NProcs goroutines while the write-back worker runs in the background.
MaxLockOps == 3
LockInit ==
    /\ policy = "FIFO" /\ shardCount = 1 /\ capacity = 1
    /\ intBits = 64
    /\ expiration = "none" /\ expTTL = 0
    /\ wpolicy \in {"none", "through", "back"}
    /\ buffer = (IF wpolicy = "back" THEN 1 ELSE 0)
    /\ Fresh
    /\ ops = MaxLockOps

LockNext ==
    \/ \E p \in Procs :
        \/ \E k \in ConcKeys : GetStart(p, k)
        \/ GetOnRead(p)
        \/ SfDo(p)
        \/ SfLoad(p)
        \/ \E k \in ConcKeys, ttl \in PutTTLs : PutStart(p, k, "v2", ttl)
        \/ PutLock(p)
        \/ PutStore(p)
        \/ PutUnlock(p)
    \/ Worker

LockSpec == LockInit /\ [][LockNext]_vars

\* ===================================== expiry, call after call as time passes
\* One LRU shard of capacity MaxCapacity with a write-through policy, with or
\* without ExpireAfterAccess(TTL = 1); Put, PutWithTTL and Expire with
\* durations negative, zero, equal to the strategy's TTL and above it, and
\* Get, while the clock advances.
MaxExpiryOps == 3
LongTTL == 2
ExpirySpecInit ==
    /\ policy = "LRU" /\ shardCount = 1 /\ capacity = MaxCapacity
    /\ intBits = 64
    /\ expiration \in {"none", "access"}
    /\ expTTL \in (IF expiration = "access" THEN ExpTTLs ELSE {0})
    /\ wpolicy = "through" /\ buffer = 0
    /\ Fresh
    /\ ops = MaxExpiryOps

ExpirySpecNext ==
    \/ \E k \in ConcKeys, v \in Values, ttl \in {-1, 0, 1, LongTTL} : SeqPut(k, v, ttl)
    \/ \E k \in ConcKeys : SeqGetHit(k)
    \/ \E k \in ConcKeys : SeqGetMiss(k)
    \/ \E k \in ConcKeys, ttl \in {-1, 0, LongTTL} : SeqExpire(k, ttl)
    \/ Tick

ExpirySpec == ExpirySpecInit /\ [][ExpirySpecNext]_vars

\* ================================= the cache on a 32-bit and on a 64-bit build
\* 1..MaxShards FIFO shards without expiration strategy or write policy, on a
\* build whose int is 32 or 64 bits wide.  Every call starts with Select,
\* whose index expression panics when the index is out of range.
MaxBuildOps == 3
BuildInit ==
    /\ policy = "FIFO" /\ capacity = MaxCapacity
    /\ shardCount \in 1..MaxShards /\ intBits \in {32, 64}
    /\ expiration = "none" /\ expTTL = 0 /\ wpolicy = "none" /\ buffer = 0
    /\ Fresh
    /\ ops = MaxBuildOps

\* PowerOfTwoSelector.Select: shards[idx] with idx out of range, a runtime panic
SelectPanics(k) ==
    /\ Call /\ ~panicked
    /\ ~ValidShard(k)
    /\ panicked' = TRUE
    /\ lastOp' = Op("panic", k)
    /\ UNCHANGED <<cfgVars, store, ev, now, backing, queue, closed, insOrder, useOrder,
                   concVars>>

BuildNext ==
    \/ \E k \in Keys, v \in Values : ValidShard(k) /\ SeqPut(k, v, 0)
    \/ \E k \in Keys : ValidShard(k) /\ SeqGetHit(k)
    \/ \E k \in Keys : ValidShard(k) /\ SeqGetMiss(k)
    \/ \E k \in Keys : ValidShard(k) /\ SeqRemove(k)
    \/ \E k \in Keys : SelectPanics(k)

BuildSpec == BuildInit /\ [][BuildNext]_vars

\* ===================== the copy-on-write store, statement by statement
\* One cowStore.  Put and Delete run statement by statement, one entry copied
\* per step, under the shard mutex their callers (PutWithTTL, Remove) hold;
\* Get runs at any time without the mutex.
MaxCowOps == 4

\* cowStore.Put / cowStore.Delete: old := s.data.Load(); n := make(map)
CowLoad(p, op, k, v) ==
    /\ Ready(p) /\ Call /\ ~panicked
    /\ mu[0] = NIL
    /\ mu' = [mu EXCEPT ![0] = p]
    /\ Goto(p, [Start(p, op, k) EXCEPT !.at = "cowCopy", !.val = v,
                                       !.old = store[0].data, !.n = EmptyMap])
    /\ UNCHANGED <<cfgVars, store, ev, now, wbVars, lastOp, insOrder, useOrder, sf, loads>>

\* the entries of old the loop `for k, v := range old` has still to visit
CowToCopy(r) ==
    {k \in DOMAIN r.old : k \notin DOMAIN r.n /\ (r.op = "StoreDelete" => k # r.key)}

\* a variant: the new map is published before it is filled, so that every
\* entry copied is a write to the published map
CowCopyPublished(p) ==
    /\ pc[p].at = "cowCopy" /\ ~panicked
    /\ \E k \in CowToCopy(pc[p]) :
         /\ Goto(p, [pc[p] EXCEPT !.n = MapPut(@, k, pc[p].old[k])])
         /\ store' = [store EXCEPT ![0].data = MapPut(pc[p].n, k, pc[p].old[k])]
    /\ UNCHANGED <<cfgVars, ev, now, wbVars, histVars, mu, sf, loads>>

\* one turn of the loop: n[k] = v, in the order range yields the entries
CowCopy(p) ==
    /\ pc[p].at = "cowCopy" /\ ~panicked
    /\ \E k \in CowToCopy(pc[p]) :
         Goto(p, [pc[p] EXCEPT !.n = MapPut(@, k, pc[p].old[k])])
    /\ UNCHANGED <<cfgVars, store, ev, now, wbVars, histVars, mu, sf, loads>>

\* after the loop: Put adds or replaces its entry, n[key] = ent
CowAdd(p) ==
    /\ pc[p].at = "cowCopy" /\ ~panicked
    /\ CowToCopy(pc[p]) = {}
    /\ Goto(p, [pc[p] EXCEPT !.at = "cowPublish",
                             !.n = IF pc[p].op = "StorePut"
                                   THEN MapPut(@, pc[p].key, NewEntry(pc[p].val, now, 0))
                                   ELSE @])
    /\ UNCHANGED <<cfgVars, store, ev, now, wbVars, histVars, mu, sf, loads>>

\* s.data.Store(n)
CowPublish(p) ==
    /\ pc[p].at = "cowPublish" /\ ~panicked
    /\ store' = [store EXCEPT ![0].data = pc[p].n]
    /\ Goto(p, [pc[p] EXCEPT !.at = "cowSize"])
    /\ UNCHANGED <<cfgVars, ev, now, wbVars, histVars, mu, sf, loads>>

\* s.size.Store(int64(len(n))); the caller unlocks
CowSetSize(p) ==
    /\ pc[p].at = "cowSize" /\ ~panicked
    /\ store' = [store EXCEPT ![0].size = Cardinality(DOMAIN pc[p].n)]
    /\ mu' = [mu EXCEPT ![0] = NIL]
    /\ Goto(p, [pc[p] EXCEPT !.at = "done"])
    /\ UNCHANGED <<cfgVars, ev, now, wbVars, histVars, sf, loads>>

\* cowStore.Get: m := s.data.Load(); ent, ok := m[key]
CowGet(p, k) ==
    /\ Ready(p) /\ Call /\ ~panicked
    /\ Goto(p, [Start(p, "StoreGet", k) EXCEPT !.at = "done"])
    /\ lastOp' = [Op("StoreGet", k) EXCEPT
                    !.ok = cowHas(store[0], k),
                    !.ret = IF cowHas(store[0], k) THEN cowGet(store[0], k).value ELSE NilVal]
    /\ UNCHANGED <<cfgVars, store, ev, now, wbVars, insOrder, useOrder, mu, sf, loads>>

CowInit ==
    /\ policy = "FIFO" /\ capacity = MaxCapacity
    /\ shardCount = 1
    /\ intBits = 64
    /\ expiration = "none" /\ expTTL = 0 /\ wpolicy = "none" /\ buffer = 0
    /\ Fresh
    /\ ops = MaxCowOps

CowNext ==
    \E p \in Procs :
        \/ \E k \in Keys, v \in Values : CowLoad(p, "StorePut", k, v)
        \/ \E k \in Keys : CowLoad(p, "StoreDelete", k, NilVal)
        \/ CowCopy(p)
        \/ CowAdd(p)
        \/ CowPublish(p)
        \/ CowSetSize(p)
        \/ \E k \in Keys : CowGet(p, k)

CowSpec == CowInit /\ [][CowNext]_vars

\* ============================================== construction and first use
\* NewShardedCache is called once, with 0..MaxShards shards and a PolicyType
\* that is one of the three constants or another string; the cache it
\* returns is then used.
MaxNewOps == 3
Unset == "unset"                 \* no cache has been constructed yet
UnknownPolicy == "MRU"           \* a PolicyType that is none of the constants
NewInit ==
    /\ policy = Unset /\ capacity = 0 /\ shardCount = 0
    /\ intBits = 64
    /\ expiration = "none" /\ expTTL = 0 /\ wpolicy = "none" /\ buffer = 0
    /\ store = [i \in ShardIds |-> NewCOWStore]
    /\ ev = [i \in ShardIds |-> newFIFO]
    /\ now = StartTime
    /\ backing \in {EmptyMap, [k \in Keys |-> "v1"]}
    /\ queue = <<>> /\ closed = FALSE /\ panicked = FALSE
    /\ lastOp = NoOp /\ insOrder = <<>> /\ useOrder = <<>>
    /\ Quiet
    /\ ops = MaxNewOps

\* NewShardedCache(shards, capacity, eviction, engine): NewEvictionPolicy is
\* called once per shard, in the loop that creates the shards, and panics on
\* an unknown PolicyType
NewShardedCache(n, cap, t) ==
    /\ policy = Unset /\ ~panicked /\ Call
    /\ IF n > 0 /\ t \notin PolicyTypes
       THEN /\ panicked' = TRUE
            /\ lastOp' = [Op("panic", NoKey) EXCEPT !.val = t]
            /\ UNCHANGED <<policy, capacity, shardCount, ev>>
       ELSE /\ policy' = t /\ capacity' = cap /\ shardCount' = n
            /\ ev' = IF t \in PolicyTypes
                     THEN [i \in ShardIds |-> NewEvictionPolicy(t)]
                     ELSE ev
            /\ lastOp' = [Op("New", NoKey) EXCEPT !.val = t]
            /\ UNCHANGED panicked
    /\ UNCHANGED <<intBits, expiration, expTTL, wpolicy, buffer, store, now, backing,
                   queue, closed, insOrder, useOrder, concVars>>

NewNext ==
    \/ \E n \in 0..MaxShards, t \in PolicyTypes \cup {UnknownPolicy} :
         NewShardedCache(n, MaxCapacity, t)
    \/ \E k \in Keys, v \in Values : policy # Unset /\ ValidShard(k) /\ SeqPut(k, v, 0)
    \/ \E k \in Keys : policy # Unset /\ ValidShard(k) /\ SeqGetHit(k)
    \/ \E k \in Keys : policy # Unset /\ ValidShard(k) /\ SeqGetMiss(k)
    \/ \E k \in Keys : policy # Unset /\ SelectPanics(k)

NewSpec == NewInit /\ [][NewNext]_vars

\* ================================== goroutines that write, on several shards
\* MaxShards shards of one entry each, without expiration strategy or write
\* policy; MaxFrameOps calls of Put, PutWithTTL, Remove and Expire by NProcs
\* goroutines.
MaxFrameOps == 3
FrameInit ==
    /\ policy \in PolicyTypes /\ capacity = MaxShards
    /\ shardCount = MaxShards
    /\ intBits = 64
    /\ expiration = "none" /\ expTTL = 0 /\ wpolicy = "none" /\ buffer = 0
    /\ Fresh
    /\ ops = MaxFrameOps

FrameNext ==
    \E p \in Procs :
        \/ \E k \in Keys, ttl \in PutTTLs : PutStart(p, k, "v2", ttl)
        \/ PutLock(p)
        \/ PutStore(p)
        \/ PutUnlock(p)
        \/ \E k \in Keys : RemoveStart(p, k)
        \/ RemoveLock(p)
        \/ RemoveUnlock(p)
        \/ \E k \in Keys : ExpireLocked(p, k, 1)

FrameSpec == FrameInit /\ [][FrameNext]_vars

\* ====================== write-back and the order of writes, step by step
\* FIFO shards and a write-back policy whose buffer holds every write of the
\* run (no write is dropped): goroutines Put, the worker passes queued writes
\* to the backing store in the background, Close ends the run.
MaxOrderOps == 3
OrderInit ==
    /\ policy = "FIFO" /\ shardCount \in 1..MaxShards /\ capacity = MaxCapacity
    /\ intBits = 64
    /\ expiration = "none" /\ expTTL = 0
    /\ wpolicy = "back" /\ buffer = MaxOrderOps
    /\ Fresh
    /\ ops = MaxOrderOps

OrderNext ==
    \/ \E p \in Procs :
        \/ \E k \in ConcKeys, v \in Values, ttl \in PutTTLs : PutStart(p, k, v, ttl)
        \/ PutLock(p)
        \/ PutStore(p)
        \/ PutUnlock(p)
    \/ Worker
    \/ SeqClose

OrderSpec == OrderInit /\ [][OrderNext]_vars

\* ============================ goroutines that are scheduled again and again
\* MaxShards LRU shards of capacity 1 each with a write-back policy: MaxLiveOps calls of Get, Put, PutWithTTL, Remove and
\* Expire by NProcs goroutines next to the worker.  A goroutine that can take
\* its next step takes it in the end (the Go scheduler starves no runnable
\* goroutine; Loader.Load and the backing store's Put return), and so does
\* the worker.
MaxLiveOps == 3
LiveInit ==
    /\ policy = "LRU" /\ shardCount = MaxShards /\ capacity = MaxShards
    /\ intBits = 64
    /\ expiration = "none" /\ expTTL = 0
    /\ wpolicy = "back" /\ buffer = MaxBuffer
    /\ Fresh
    /\ ops = MaxLiveOps

\* the next step of goroutine p inside its call
Step(p) ==
    \/ GetOnRead(p)
    \/ GetLookup(p)
    \/ GetTouch(p)
    \/ RemoveLock(p)
    \/ RemoveUnlock(p)
    \/ SfDo(p)
    \/ SfLoad(p)
    \/ PutLock(p)
    \/ PutStore(p)
    \/ PutUnlock(p)

LiveNext ==
    \/ \E p \in Procs :
        \/ \E k \in ConcKeys : GetStart(p, k)
        \/ \E k \in ConcKeys : PutStart(p, k, "v2", 0)
        \/ \E k \in ConcKeys : RemoveStart(p, k)
        \/ \E k \in ConcKeys : ExpireLocked(p, k, 1)
        \/ Step(p)
    \/ Worker

\* Step(p) can be taken: p is inside a call and is not waiting for a shard
\* mutex that is held, nor for the load of another goroutine
CanStep(p) ==
    /\ ~panicked
    /\ pc[p].at \notin {"idle", "done", "sfWait"}
    /\ pc[p].at \in {"rmLock", "putLock"} => mu[Shard(pc[p].key)] = NIL
    /\ pc[p].at = "putEv" => CanPut(policy, ev[Shard(pc[p].key)], pc[p].key)
    /\ pc[p].at = "touch" =>
          \/ policy = "LFU" => ev[Shard(pc[p].key)].freq[pc[p].node] < MaxFreq
          \/ mu[Shard(pc[p].key)] # NIL
          \/ Held(Shard(pc[p].key), p) # {}
\* p, inside a call, has moved on (or the program has ended on a fatal error)
Moved(p) ==
    /\ pc[p].at \notin {"idle", "done"}
    /\ pc'[p].at # pc[p].at \/ panicked' # panicked

\* weak fairness of Step(p), written with CanStep(p) for ENABLED <<Step(p)>>_vars
\* and Moved(p) for <<Step(p)>>_vars
Scheduled(p) == []<>(~CanStep(p)) \/ []<><<Moved(p)>>_vars

LiveSpec ==
    /\ LiveInit /\ [][LiveNext]_vars
    /\ \A p \in Procs : Scheduled(p)
    /\ WF_vars(Worker)

\* ================================================================== claims

\* a step that is the call `op` (the worker and the clock are not calls)
Called(op) == ops' # ops /\ lastOp'.op = op

\* the keys of s that live in shard i, in the order of s
RECURSIVE InShard(_, _)
InShard(s, i) ==
    IF s = <<>> THEN <<>>
    ELSE IF Shard(Head(s)) = i THEN <<Head(s)>> \o InShard(Tail(s), i)
    ELSE InShard(Tail(s), i)

C2_ShardWithinCapacity ==
    [][Called("Put")
        => \A i \in 0..(shardCount - 1) :
             Cardinality(DOMAIN store'[i].data) <= PerShard]_vars

\* C3: in every interleaving of Get, Put, PutWithTTL, Remove and Expire calls,
\* whenever no goroutine holds a shard's lock, the keys in the index of that
\* shard's eviction policy are exactly the keys in that shard's store.
C3_IndexMirrorsStore ==
    \A i \in 0..(shardCount - 1) :
        mu[i] = NIL => Tracked(policy, ev[i]) = DOMAIN store[i].data

\* C3 witness: no lock is held, a key is cached and tracked, and a Get that
\* read another key is about to update the policy for it, without the lock,
\* after that key has left the cache.
C3_Witness ==
    /\ mu[0] = NIL /\ DOMAIN store[0].data # {}
    /\ Tracked(policy, ev[0]) = DOMAIN store[0].data
    /\ \E p \in Procs : pc[p].at = "touch" /\ pc[p].key \notin DOMAIN store[0].data

\* C4: under LRU a Put that finds its shard at capacity evicts the key of that
\* shard whose last use (its latest Get, or its first insertion when it was
\* never read since) is the oldest.
C4_LruEvictsLeastRecentlyUsed ==
    [][(/\ policy = "LRU" /\ Called("Put")
        /\ cowSize(store[Shard(lastOp'.key)]) >= PerShard)
        => lastOp'.evicted =
             (LET s == InShard(useOrder, Shard(lastOp'.key))
              IN  IF s = <<>> THEN NoKey ELSE Head(s))]_vars

\* C5: under FIFO every Evict returns the tracked key whose first insertion
\* is the oldest (the empty string when nothing is tracked); OnGet and OnPut
\* of a key already tracked leave that order alone.
C5_FifoEvictsInInsertionOrder ==
    [][(policy = "FIFO" /\ lastOp'.op = "Evict")
        => lastOp'.ret = (IF insOrder = <<>> THEN NoKey ELSE Head(insOrder))]_vars

\* C5 witness: an Evict returned a key while a key inserted later is still tracked.
C5_Witness ==
    policy = "FIFO" /\ lastOp.op = "Evict" /\ lastOp.ret # NoKey /\ insOrder # <<>>

\* C6: under LFU every key Evict returns has, when Evict is called, the
\* smallest access count recorded among the keys tracked.
C6_LfuEvictsMinimalCount ==
    [][(policy = "LFU" /\ lastOp'.op = "Evict" /\ lastOp'.ret # NoKey)
        => /\ lastOp'.ret \in DOMAIN ev[0].nodes
           /\ \A j \in DOMAIN ev[0].nodes :
                ev[0].freq[ev[0].nodes[lastOp'.ret]] <= ev[0].freq[ev[0].nodes[j]]]_vars

\* C6 witness: an Evict returned a key and left a key with a larger count tracked.
C6_Witness ==
    /\ policy = "LFU" /\ lastOp.op = "Evict" /\ lastOp.ret # NoKey
    /\ \E j \in DOMAIN ev[0].nodes : ev[0].freq[ev[0].nodes[j]] > 1

\* C7: for each policy, Evict returns the empty string exactly when no key is
\* tracked, and otherwise a tracked key, which it stops tracking.
C7_EvictReturnsTrackedKey ==
    [][lastOp'.op = "Evict"
        => LET T == Tracked(policy, ev[0])
           IN  /\ (lastOp'.ret = NoKey <=> T = {})
               /\ lastOp'.ret # NoKey
                    => (lastOp'.ret \in T /\ lastOp'.ret \notin Tracked(policy, ev'[0]))]_vars

\* C8: TTL(k) returns -1 when k is cached without an expiry, -2 when k is
\* absent or its expiry has passed, and otherwise the positive time remaining.
C8_TTLResult ==
    [][Called("TTL")
        => LET st == store[Shard(lastOp'.key)]
               k == lastOp'.key
           IN  lastOp'.dur =
                 (IF ~cowHas(st, k) THEN -2
                  ELSE IF st.data[k].expireAt = 0 THEN -1
                  ELSE IF now >= st.data[k].expireAt THEN -2
                  ELSE st.data[k].expireAt - now)]_vars

\* C9: in every configuration, once more than ttl has passed since
\* PutWithTTL(k, v, ttl) with ttl > 0, no call having been made since, Get(k)
\* consults the Loader instead of returning the cached v, and returns nil
\* when the backing store has no value for k.
C9_ExplicitTTLExpires ==
    [][(/\ lastOp.op = "Put" /\ lastOp.dur > 0 /\ now > lastOp.at + lastOp.dur
        /\ Called("Get") /\ lastOp'.key = lastOp.key)
        => /\ lastOp'.loaded
           /\ lastOp.key \notin DOMAIN backing => lastOp'.ret = NilVal]_vars

\* C10: when every goroutine has called Get(k) for a key k absent when each
\* started, each starting before any other returned, and nothing else has
\* been called, the Loader was called exactly once for k.
C10_OneLoadPerMissingKey ==
    (\A p \in Procs : /\ pc[p].at = "done" /\ pc[p].op = "Get" /\ pc[p].key = "a"
                      /\ pc[p].missed /\ pc[p].conc)
        => loads["a"] = 1

\* C11: when the backing store holds v for k and the Loader fails for no
\* goroutine, every Get(k) that found k uncached and has returned, returned v
\* with a nil error, in every interleaving of the goroutines' Gets.
C11_ConcurrentGetsReturnLoaded ==
    ("a" \in DOMAIN backing /\ \A q \in Procs : pc[q].err # LoadErr)
        => \A p \in Procs :
             (pc[p].at = "done" /\ pc[p].op = "Get" /\ pc[p].key = "a" /\ pc[p].missed)
                => (pc[p].ret = backing["a"] /\ pc[p].err = NoErr)

\* C11 witness: every goroutine has returned from a Get that found the key
\* uncached, each started before any other returned, and one Loader call
\* served them all.
C11_Witness ==
    /\ "a" \in DOMAIN backing /\ loads["a"] = 1
    /\ \A p \in Procs : /\ pc[p].at = "done" /\ pc[p].op = "Get" /\ pc[p].missed
                        /\ pc[p].conc /\ pc[p].ret = backing["a"]

\* C12: a Get(k) that finds k uncached while the backing store holds v for k
\* (the Loader not failing) returns v and leaves k cached with value v; and a
\* Get(k) called right after a Get(k) that loaded a value is a hit: it returns
\* that value without calling the Loader.
C12_ReadThrough ==
    [][/\ (/\ Called("Get") /\ lastOp'.loaded /\ lastOp'.err = NoErr
           /\ ~cowHas(store[Shard(lastOp'.key)], lastOp'.key)
           /\ lastOp'.key \in DOMAIN backing)
          => /\ lastOp'.ret = backing[lastOp'.key]
             /\ cowHas(store'[Shard(lastOp'.key)], lastOp'.key)
             /\ store'[Shard(lastOp'.key)].data[lastOp'.key].value = backing[lastOp'.key]
       /\ (/\ lastOp.op = "Get" /\ lastOp.loaded /\ lastOp.ret # NilVal /\ lastOp.at = now
           /\ Called("Get") /\ lastOp'.key = lastOp.key)
          => (~lastOp'.loaded /\ lastOp'.ret = lastOp.ret /\ lastOp'.err = NoErr)]_vars

\* C12 witness: a Get found its key uncached, loaded the backing store's
\* value, evicted another key to make room and left its own key cached.
C12_Witness ==
    /\ lastOp.op = "Get" /\ lastOp.loaded /\ lastOp.ret = "v1" /\ lastOp.evicted # NoKey
    /\ lastOp.evicted # lastOp.key
    /\ cowHas(store[Shard(lastOp.key)], lastOp.key)

\* C13: a Get(k) on an uncached key whose Loader call fails returns nil and
\* that error; one whose Loader call returns nil without an error returns
\* nil and no error; either way k is afterwards in no shard's store and
\* tracked by no shard's eviction policy.
C13_LoadFailureCachesNothing ==
    [][(/\ Called("Get") /\ lastOp'.loaded
        /\ ~cowHas(store[Shard(lastOp'.key)], lastOp'.key)
        /\ (lastOp'.err # NoErr \/ lastOp'.key \notin DOMAIN backing))
        => /\ lastOp'.ret = NilVal
           /\ lastOp'.err \in {NoErr, LoadErr}
           /\ lastOp'.key \in DOMAIN backing => lastOp'.err = LoadErr
           /\ \A i \in 0..(shardCount - 1) :
                /\ lastOp'.key \notin DOMAIN store'[i].data
                /\ lastOp'.key \notin Tracked(policy, ev'[i])]_vars

\* C13 witness: a Get on an uncached key got a nil value and no error from
\* the Loader while other keys were cached.
C13_Witness ==
    /\ lastOp.op = "Get" /\ lastOp.loaded /\ lastOp.ret = NilVal /\ lastOp.err = NoErr
    /\ backing = EmptyMap
    /\ \E i \in 0..(shardCount - 1) : DOMAIN store[i].data # {}

\* C14: a Put(k, v2) on a key cached with another value replaces the whole
\* entry by a new one holding v2, and a Get(k) called right after a Put(k, v2),
\* nothing else having been called in between, returns v2.
C14_LastWriteWins ==
    [][/\ (/\ Called("Put") /\ cowHas(store[Shard(lastOp'.key)], lastOp'.key)
           /\ store[Shard(lastOp'.key)].data[lastOp'.key].value # lastOp'.val)
          => /\ cowHas(store'[Shard(lastOp'.key)], lastOp'.key)
             /\ store'[Shard(lastOp'.key)].data[lastOp'.key]
                  = PutEntry(lastOp'.val, lastOp'.dur, now)
       /\ (/\ lastOp.op = "Put" /\ lastOp.at = now
           /\ Called("Get") /\ lastOp'.key = lastOp.key)
          => (lastOp'.ret = lastOp.val /\ ~lastOp'.loaded /\ lastOp'.err = NoErr)]_vars

\* C14 witness: a Put("v2") found its own key cached in a shard at capacity
\* (the key it evicted to make room is its own) and the entry now holds "v2".
C14_Witness ==
    /\ lastOp.op = "Put" /\ lastOp.val = "v2" /\ lastOp.evicted = lastOp.key
    /\ cowHas(store[Shard(lastOp.key)], lastOp.key)
    /\ store[Shard(lastOp.key)].data[lastOp.key].value = "v2"

\* C15: when Close returns on a write-back policy the queue is empty and
\* every write that was queued when Close was called has been put into the
\* backing store, which holds for each key queued the value queued last.
C15_CloseFlushesQueue ==
    [][(Called("Close") /\ wpolicy = "back")
        => /\ queue' = <<>>
           /\ \A j \in 1..Len(queue) :
                /\ queue[j][1] \in DOMAIN backing'
                /\ (\A m \in (j + 1)..Len(queue) : queue[m][1] # queue[j][1])
                     => backing'[queue[j][1]] = queue[j][2]]_vars

\* C15 witness: Close has returned after three Puts, the backing store was
\* empty at first and now holds two keys, one of them with the value "v2".
C15_Witness ==
    /\ lastOp.op = "Close" /\ closed /\ queue = <<>> /\ ops = MaxWbOps - 3
    /\ Cardinality(DOMAIN backing) = 2
    /\ \E k \in DOMAIN backing : backing[k] = "v2"

\* C16: WriteBackPolicy.OnWrite never blocks and never fails: a Put whose
\* write is forwarded to a write-back policy returns nil with its entry
\* cached and the backing store unchanged, and its write is appended to the
\* queue when the queue holds fewer than buffer writes and dropped otherwise.
C16_WriteBackOnWriteNeverFails ==
    [][(/\ ops' # ops /\ lastOp'.op \in {"Put", "panic"} /\ lastOp'.val \in Values
        /\ wpolicy = "back" /\ expiration = "none" /\ lastOp'.dur = 0)
        => /\ lastOp'.op = "Put"
           /\ cowHas(store'[Shard(lastOp'.key)], lastOp'.key)
           /\ store'[Shard(lastOp'.key)].data[lastOp'.key].value = lastOp'.val
           /\ backing' = backing
           /\ queue' = IF Len(queue) < buffer
                       THEN Append(queue, <<lastOp'.key, lastOp'.val>>)
                       ELSE queue]_vars

\* C17: once Close has been called on a write-back policy, every later Put
\* returns normally, nothing is queued and nothing reaches the backing store.
C17_ClosedPolicyIgnoresWrites ==
    [][(/\ ops' # ops /\ lastOp'.op \in {"Put", "panic"} /\ lastOp'.val \in Values
        /\ wpolicy = "back" /\ closed)
        => /\ lastOp'.op = "Put"
           /\ ~panicked'
           /\ queue' = queue
           /\ backing' = backing]_vars

\* C18: a goroutine holds no shard mutex at the step in which it calls
\* Loader.Load or in which its call puts a value into the backing store,
\* under write-through, write-back and no write policy alike.
C18_NoLockAcrossBackingCalls ==
    [][\A p \in Procs :
         (\/ pc[p].at = "load" /\ pc'[p].at # "load"
          \/ pc[p].at = "putStore" /\ pc'[p].at # "putStore" /\ backing' # backing)
            => \A i \in 0..(shardCount - 1) : mu[i] # p]_vars

C20_PutAppliesWritePolicy ==
    [][(/\ ops' # ops /\ lastOp'.op \in {"Put", "panic"} /\ lastOp'.val \in Values
        /\ lastOp'.dur = 0 /\ wpolicy # "none" /\ ~closed)
        => IF wpolicy = "through"
           THEN backing' = MapPut(backing, lastOp'.key, lastOp'.val)
           ELSE Len(queue) < buffer
                  => queue' = Append(queue, <<lastOp'.key, lastOp'.val>>)]_vars

\* C21: under write-through a Put whose entry has its expiry unset returns
\* nil with the entry cached, whether the backing store's Put succeeded or
\* failed; when it succeeded the backing store holds the value under the key
\* at the moment Put returns, and when it failed the backing store is as it
\* was.
C21_WriteThroughIsSynchronous ==
    [][(/\ ops' # ops /\ lastOp'.op = "Put" /\ wpolicy = "through"
        /\ expiration = "none" /\ lastOp'.dur = 0)
        => /\ lastOp'.err = NoErr
           /\ cowHas(store'[Shard(lastOp'.key)], lastOp'.key)
           /\ store'[Shard(lastOp'.key)].data[lastOp'.key].value = lastOp'.val
           /\ backing' = IF lastOp'.werr = NoErr
                         THEN MapPut(backing, lastOp'.key, lastOp'.val)
                         ELSE backing]_vars

\* C21 witness: a Put whose write to the backing store failed has returned
\* nil; its value is cached and the backing store does not hold the key.
C21_Witness ==
    /\ lastOp.op = "Put" /\ lastOp.werr = PutErr /\ lastOp.err = NoErr
    /\ lastOp.key \notin DOMAIN backing
    /\ store[Shard(lastOp.key)].data[lastOp.key].value = lastOp.val

\* C22: Remove is idempotent and local.  A Remove(k) of a key that is not
\* cached changes neither the store nor the eviction state of any shard; a
\* second Remove(k) right after a Remove(k) changes nothing either; a Get(k)
\* right after a Remove(k) misses; and no Remove calls the Loader or touches
\* the backing store or the write policy.
C22_RemoveIdempotentLocal ==
    [][/\ (Called("Remove") /\ ~cowHas(store[Shard(lastOp'.key)], lastOp'.key))
            => (store' = store /\ ev' = ev)
       /\ (Called("Remove") /\ lastOp.op = "Remove" /\ lastOp'.key = lastOp.key)
            => (store' = store /\ ev' = ev)
       /\ (Called("Get") /\ lastOp.op = "Remove" /\ lastOp'.key = lastOp.key)
            => lastOp'.loaded
       /\ Called("Remove")
            => (~lastOp'.loaded /\ UNCHANGED <<backing, queue, closed, panicked, loads>>)]_vars

\* C22 witness: after four calls, the last of them a Remove, the key removed
\* is not cached while another key still is, and the backing store holds the
\* key for a later Get to load.
C22_Witness ==
    /\ lastOp.op = "Remove" /\ ops = MaxDeepOps - 4
    /\ Len(insOrder) = 1
    /\ ~cowHas(store[Shard(lastOp.key)], lastOp.key)
    /\ lastOp.key \in DOMAIN backing

\* C23: Expire(k, ttl) returns true exactly when k is in its shard's store,
\* and then sets that entry's expiry to now + ttl and changes nothing else;
\* when k is absent it changes no state.  In both cases the values, the
\* eviction state, the backing store and the write policy are untouched and
\* the Loader is not called.
C23_ExpireSetsExpiryOfPresentKey ==
    [][Called("Expire")
        => LET k == lastOp'.key
               i == Shard(k)
           IN  /\ lastOp'.ok <=> cowHas(store[i], k)
               /\ IF cowHas(store[i], k)
                  THEN store' = [store EXCEPT ![i].data[k].expireAt = now + lastOp'.dur]
                  ELSE store' = store
               /\ ev' = ev /\ ~lastOp'.loaded
               /\ UNCHANGED <<backing, queue, closed, panicked, loads, insOrder, useOrder>>]_vars

\* C23 witness: Expire returned true for an entry that had already expired
\* under ExpireAfterAccess, and gave it a new expiry in the future.
C23_Witness ==
    /\ lastOp.op = "Expire" /\ lastOp.ok /\ lastOp.dur = LongTTL /\ expiration = "access"
    /\ lastOp.at > StartTime + 1
    /\ store[Shard(lastOp.key)].data[lastOp.key].expireAt = lastOp.at + LongTTL
    /\ store[Shard(lastOp.key)].data[lastOp.key].lastAccessedAt = StartTime

\* C24: the shard of a key is a function of the key and the shard count that
\* is always a valid index, and a key is stored in no shard but its own.
C24_KeyInItsShardOnly ==
    \A k \in Keys :
        /\ Shard(k) \in 0..(shardCount - 1)
        /\ \A i \in 0..(shardCount - 1) : k \in DOMAIN store[i].data => i = Shard(k)

\* C25: the map a store Get reads is always a complete published snapshot.
\* The published map changes only when a Put or Delete publishes, and then
\* to the whole previous map with the one key put or deleted; it does not
\* change while a writer copies.  A Get, whatever the writers are doing and
\* without waiting for the mutex, returns what the published map holds.
C25_GetSeesCompleteSnapshot ==
    [][/\ store'[0].data # store[0].data
            => \E p \in Procs :
                 /\ pc[p].at = "cowPublish" /\ pc'[p].at = "cowSize"
                 /\ store'[0].data = IF pc[p].op = "StorePut"
                                     THEN MapPut(store[0].data, pc[p].key,
                                                 NewEntry(pc[p].val, now, 0))
                                     ELSE MapDelete(store[0].data, pc[p].key)
       /\ (Called("StoreGet") /\ mu' = mu)
            => /\ lastOp'.ok <=> lastOp'.key \in DOMAIN store[0].data
               /\ lastOp'.ok => lastOp'.ret = store[0].data[lastOp'.key].value
               /\ ~lastOp'.ok => lastOp'.ret = NilVal]_vars

\* C25 witness: a Get has found its key while a writer, holding the mutex,
\* has copied one entry of the published two-entry map into its new map and
\* not yet the entry of that key.
C25_Witness ==
    /\ lastOp.op = "StoreGet" /\ lastOp.ok
    /\ \E q \in Procs :
         /\ pc[q].at = "cowCopy" /\ mu[0] = q
         /\ Cardinality(DOMAIN pc[q].n) = 1
         /\ lastOp.key \in DOMAIN store[0].data \ DOMAIN pc[q].n
         /\ lastOp.key \in CowToCopy(pc[q])

C27_WritesStayInTheirShard ==
    [][\A i \in 0..(shardCount - 1) :
         /\ (store'[i] # store[i] \/ ev'[i] # ev[i])
              => \E p \in Procs :
                   /\ \/ pc'[p] # pc[p]
                      \/ pc' = pc /\ ops' # ops /\ pc[p].op = "Expire"
                   /\ Shard(pc'[p].key) = i
         /\ \A p \in Procs :
              (mu'[i] = p /\ mu[i] # p) => Shard(pc'[p].key) = i]_vars

\* C27 witness: three Puts were called; one stored an entry in one shard,
\* one has completed in the other shard, and the third, by the other
\* goroutine, has just evicted that entry in its capacity check, leaving
\* its shard empty and the first shard as it was.
C27_Witness ==
    /\ ops = MaxFrameOps - 3
    /\ \E p \in Procs : \E q \in Procs \ {p} :
         LET i == Shard(pc[p].key) IN
         /\ pc[p].at = "putStore" /\ mu[i] = p /\ cowSize(store[i]) = 0
         /\ pc[q].op = "Put" /\ pc[q].at = "done" /\ Shard(pc[q].key) = i
         /\ \E j \in 0..(shardCount - 1) : j # i /\ cowSize(store[j]) = 1

C29_HitNeverShortensExpiry ==
    [][(Called("Get") /\ ~lastOp'.loaded /\ expiration = "access")
        => store'[Shard(lastOp'.key)].data[lastOp'.key].expireAt
             >= store[Shard(lastOp'.key)].data[lastOp'.key].expireAt]_vars

\* C30: the entry PutWithTTL(k, v, ttl) stores at time t has expiry t + ttl
\* when ttl > 0, with or without an expiration strategy; when ttl <= 0 its
\* expiry is t + T under ExpireAfterAccess(TTL = T) and unset without a
\* strategy.
C30_StoredExpiry ==
    [][Called("Put")
        => store'[Shard(lastOp'.key)].data[lastOp'.key].expireAt
             = IF lastOp'.dur > 0 THEN now + lastOp'.dur
               ELSE IF expiration = "access" THEN now + expTTL
               ELSE 0]_vars

\* C30 witness: under ExpireAfterAccess a PutWithTTL with the long TTL was
\* called one tick after the start; its entry expires at the time of the
\* call plus the long TTL, later than the strategy would have set.
C30_Witness ==
    /\ expiration = "access" /\ lastOp.op = "Put" /\ lastOp.dur = LongTTL
    /\ lastOp.at = StartTime + 1
    /\ store[Shard(lastOp.key)].data[lastOp.key].expireAt = StartTime + 1 + LongTTL
    /\ StartTime + 1 + LongTTL > lastOp.at + expTTL

\* C31: a Get that observed an expired entry removes only that entry: when
\* the entry cached under its key was replaced after the Get read it (the Get
\* no longer holds the cached entry) and a Put of another goroutine has
\* returned, the removal step of the Get leaves the fresh entry cached.
C31_ExpiredGetRemovesOnlyWhatItRead ==
    [][\A p \in Procs :
         (/\ pc[p].op = "Get" /\ pc[p].at = "rmLock" /\ pc'[p].at = "rmEv"
          /\ ~pc[p].attached
          /\ \E q \in Procs \ {p} :
                /\ pc[q].op = "Put" /\ pc[q].at = "done" /\ pc[q].key = pc[p].key
                /\ cowHas(store[Shard(pc[p].key)], pc[p].key)
                /\ cowGet(store[Shard(pc[p].key)], pc[p].key).value = pc[q].val)
         => store'[Shard(pc[p].key)] = store[Shard(pc[p].key)]]_vars

\* C32: a value written by an explicit Put is never replaced by an older
\* loaded value: when a Get that missed and loaded a value and a Put of the
\* same key by another goroutine, not returned before the Get started, have
\* both returned, the cache holds the value of the Put for the key.
C32_LoadedValueNeverReplacesPut ==
    \A p \in Procs : \A q \in Procs \ {p} :
        (/\ pc[p].op = "Get" /\ pc[p].at = "done" /\ pc[p].missed /\ pc[p].conc
         /\ pc[p].err = NoErr /\ pc[p].ret # NilVal
         /\ pc[q].op = "Put" /\ pc[q].at = "done" /\ pc[q].key = pc[p].key)
        => /\ cowHas(store[Shard(pc[p].key)], pc[p].key)
           /\ cowGet(store[Shard(pc[p].key)], pc[p].key).value = pc[q].val

\* C33: a Put or PutWithTTL of a key already cached in its shard evicts no
\* other key: the set of keys cached in that shard is the same before and
\* after the call, also when the shard is at its capacity.
C33_OverwriteEvictsNothing ==
    [][(/\ Called("Put")
        /\ cowHas(store[Shard(lastOp'.key)], lastOp'.key))
       => DOMAIN store'[Shard(lastOp'.key)].data = DOMAIN store[Shard(lastOp'.key)].data]_vars

\* C34: the eviction metric counts real evictions: in every call, an
\* Eviction() event is recorded (the capacity check of PutWithTTL got a key
\* from Evict) only together with the deletion of that key from the store of
\* the shard, where it was cached; so the number of events recorded and the
\* number of entries deleted by the capacity check grow in step.
C34_EvictionMetricCountsDeletions ==
    [][(ops' # ops /\ lastOp'.evicted # NoKey)
       => /\ cowHas(store[Shard(lastOp'.key)], lastOp'.evicted)
          /\ \/ ~cowHas(store'[Shard(lastOp'.key)], lastOp'.evicted)
             \/ lastOp'.evicted = lastOp'.key]_vars

\* the backing store once the worker has passed every queued write to it
Settled == Drain(backing, queue)

\* C35: write-back preserves order.  When no write is dropped: a Put whose
\* write is forwarded stores its entry and queues its write in one critical
\* section of the shard mutex, its value becoming the one the backing store
\* will hold for the key; no other step (the worker passing a write on, Close,
\* a Put that is not forwarded) changes what the backing store will hold; so
\* every cached entry written by a forwarded Put has the value the backing
\* store will hold, and holds after Close, for its key.
C35_WriteBackPreservesOrder ==
    /\ [][IF \E p \in Procs : pc[p].at = "putStore" /\ pc'[p].at = "putEv"
          THEN \A p \in Procs :
                 (pc[p].at = "putStore" /\ pc'[p].at = "putEv")
                 => /\ mu[Shard(pc[p].key)] = p
                    /\ cowGet(store'[Shard(pc[p].key)], pc[p].key).value = pc[p].val
                    /\ Settled' = IF Forwards(PutEntry(pc[p].val, pc[p].ttl, now))
                                  THEN MapPut(Settled, pc[p].key, pc[p].val)
                                  ELSE Settled
          ELSE Settled' = Settled]_vars
    /\ [](\A k \in ConcKeys :
            (cowHas(store[Shard(k)], k) /\ cowGet(store[Shard(k)], k).expireAt = 0)
            => /\ k \in DOMAIN Settled
               /\ Settled[k] = cowGet(store[Shard(k)], k).value
               /\ (closed /\ ~panicked) => (queue = <<>> /\ backing[k] = Settled[k]))

\* C35 witness: two goroutines have Put the same key, "v1" and "v2", both
\* forwarded; Close has returned; the cache and the backing store, which
\* was empty at first, both hold the value of the Put applied last, "v2".
C35_Witness ==
    /\ closed /\ ~panicked /\ queue = <<>> /\ ops = MaxOrderOps - 3
    /\ \E p \in Procs : \E q \in Procs \ {p} :
         /\ pc[p].op = "Put" /\ pc[p].at = "done" /\ pc[p].key = "a"
         /\ pc[p].val = "v1" /\ pc[p].ttl = 0
         /\ pc[q].op = "Put" /\ pc[q].at = "done" /\ pc[q].key = "a"
         /\ pc[q].val = "v2" /\ pc[q].ttl = 0 /\ pc[q].conc
    /\ cowGet(store[Shard("a")], "a").value = "v2"
    /\ DOMAIN backing = {"a"} /\ backing["a"] = "v2"

\* C36: deadlock freedom.  No goroutine waits for a shard mutex, or for a
\* load, its own or a deduplicated one, while it holds a shard mutex;
\* and every call that has started returns in the end.
C36_EveryCallReturns ==
    /\ [](\A p \in Procs :
            pc[p].at \in {"putLock", "rmLock", "sfDo", "sfWait", "load"}
            => \A i \in 0..(shardCount - 1) : mu[i] # p)
    /\ \A p \in Procs : (~Ready(p)) ~> (pc[p].at = "done")

\* the nodes met following next from node n, at most fuel of them
RECURSIVE lruWalk(_, _, _)
lruWalk(l, n, fuel) ==
    IF n = NIL \/ fuel = 0 THEN <<>> ELSE <<n>> \o lruWalk(l, l.next[n], fuel - 1)

\* C37: after every sequence of OnPut, OnGet, Remove and Evict calls the
\* list of the LRU is well formed: head has no prev and tail has no next
\* (both nil when nothing is tracked), prev is the inverse of next, and
\* following next from head visits exactly the nodes of the nodes map, each
\* once and under its own key, ending at tail.
C37_LruListWellFormed ==
    policy = "LRU" =>
        LET l == ev[0]
            w == lruWalk(l, l.head, MaxNodes + 1)
        IN  /\ (DOMAIN l.nodes = {}) => (l.head = NIL /\ l.tail = NIL)
            /\ l.head # NIL => l.prev[l.head] = NIL
            /\ l.tail # NIL => l.next[l.tail] = NIL
            /\ \A n \in Range(l.nodes) :
                 /\ l.next[n] # NIL => l.prev[l.next[n]] = n
                 /\ l.prev[n] # NIL => l.next[l.prev[n]] = n
            /\ Len(w) = Cardinality(DOMAIN l.nodes)
            /\ {w[j] : j \in 1..Len(w)} = Range(l.nodes)
            /\ \A j \in 1..Len(w) : l.nkey[w[j]] \in DOMAIN l.nodes /\ l.nodes[l.nkey[w[j]]] = w[j]
            /\ IF w = <<>> THEN l.tail = NIL ELSE l.tail = w[Len(w)]
====
